---- MODULE Spec2Model ----
(***************************************************************************)
(* Model of the products service of chlovec/go-ecommerce: the Category and *)
(* Product repositories (products/internal/data) on top of the relational  *)
(* store declared by the migration, and the HTTP handlers                  *)
(* (products/internal/handlers) that call them.                            *)
(*                                                                         *)
(* Every SQL statement is one atomic step of the store (statement-level    *)
(* atomicity of the database).  A statement may also fail with a database  *)
(* fault (lost connection, cancelled context); a failed statement changes  *)
(* no row.                                                                 *)
(***************************************************************************)
EXTENDS Integers, Sequences, FiniteSets, TLC

\* ------------------------------------------------------------------ bounds
MaxCategoryId == 2  \* values the bigserial of categories.id hands out
MaxProductId == 1   \* values the bigserial of products.id hands out
MaxVersion == 2     \* versions a row is allowed to reach

Callers == {"c1", "c2"}          \* concurrent requests (goroutines)
CategoryIds == 1 .. MaxCategoryId
ProductIds == 1 .. MaxProductId
Times == {1}                     \* readings of NOW()
CategoryNames == {"a", "b"}
ProductNames == {"p"}
Descs == {"d"}
Prices == {0}
Quantities == {0}

\* ------------------------------------------------------------------ errors
NoError == [text |-> "", is |-> "nil", code |-> ""]
ErrRecordNotFound == [text |-> "record not found", is |-> "ErrRecordNotFound", code |-> ""]
ErrEditConflict == [text |-> "edit conflict", is |-> "ErrEditConflict", code |-> ""]
ErrInvalidCategoryId == [text |-> "invalid category_id", is |-> "ErrInvalidCategoryId", code |-> ""]
ErrForeignKeyViolation == "23503"

\* errors produced by database/sql and the driver
sqlErrNoRows == [text |-> "sql: no rows in result set", is |-> "sql.ErrNoRows", code |-> ""]
pqForeignKeyError == [text |-> "pq: violates foreign key constraint", is |-> "pq.Error", code |-> "23503"]
dbFault == [text |-> "driver: bad connection", is |-> "driver", code |-> ""]

\* errors.Is(err, target)
errorsIs(err, target) == err.is = target.is

\* GetByID: switch { case errors.Is(err, sql.ErrNoRows): return nil, ErrRecordNotFound
\*                   default: return nil, err }
GetByIDErrorAlwaysNotFound(err) == ErrRecordNotFound
GetByIDError(err) == IF errorsIs(err, sqlErrNoRows) THEN ErrRecordNotFound ELSE err

\* Update: switch { case errors.Is(err, sql.ErrNoRows): return ErrEditConflict
\*                  default: return err }
UpdateErrorNotFound(err) == IF errorsIs(err, sqlErrNoRows) THEN ErrRecordNotFound ELSE err
UpdateErrorIgnoringNoRows(err) == IF errorsIs(err, sqlErrNoRows) THEN NoError ELSE err
UpdateError(err) == IF errorsIs(err, sqlErrNoRows) THEN ErrEditConflict ELSE err

\* ------------------------------------------------------------------- state
VARIABLES
    categories,   \* table categories: id -> row, for the ids stored
    catSeq,       \* last value of the bigserial sequence of categories.id
    products,     \* table products: id -> row
    prodSeq,      \* last value of the bigserial sequence of products.id
    pc,           \* per caller: "idle" or the Update or GetAll it has in flight
    rec,          \* per caller: the struct of its current or last repository call
    ret,          \* per caller: the error returned by its last repository call
    \* history variables, written but never read by the operations
    nUpdates,     \* per table and stored id: number of successful Updates
    deleted,      \* per table: ids removed by Delete
    hold,         \* per caller, about the (id, version) in rec: "fresh" (from a
                  \* GetByID no write has followed), "observed" (read, then
                  \* written to by a Delete or returned by its own Update),
                  \* "stale" (another caller's Update succeeded on it since)
    racing,       \* per caller: its last Update was in flight together with the
                  \* other caller's, same (id, version), the row stored at that version
    list,         \* the filters and the result of the caller's last repository
                  \* call, when that call was a GetAll
    http,         \* the last HTTP request: what the handler wrote and logged
    server        \* Server.Serve: its goroutines, channels, log and result

storeVars == <<categories, catSeq, products, prodSeq>>
callerVars == <<pc, rec, ret>>
histVars == <<nUpdates, deleted, hold, racing>>
requestVars == <<list, http>>
vars == <<categories, catSeq, products, prodSeq, pc, rec, ret,
          nUpdates, deleted, hold, racing, list, http, server>>

\* the zero value of the Go structs
ZeroCategory == [ID |-> 0, Name |-> "", Description |-> "", Version |-> 0, CreatedAt |-> 0]
ZeroProduct == [ID |-> 0, Name |-> "", CategoryID |-> 0, Description |-> "",
                Price |-> 0, Quantity |-> 0, Version |-> 0, CreatedAt |-> 0]

\* the structs a caller can pass to Update
CategoryStructs == [ID : CategoryIds, Name : CategoryNames, Description : Descs,
                    Version : 0 .. MaxVersion - 1, CreatedAt : Times]
ProductStructs == [ID : ProductIds, Name : ProductNames, CategoryID : CategoryIds,
                   Description : Descs, Price : Prices, Quantity : Quantities,
                   Version : 0 .. MaxVersion - 1, CreatedAt : Times]

\* the table a struct belongs to
TableOf(r) == IF "CategoryID" \in DOMAIN r THEN "products" ELSE "categories"
Tables == {"categories", "products"}
Table(t) == IF t = "categories" THEN categories ELSE products
TableIds(t) == IF t = "categories" THEN CategoryIds ELSE ProductIds

\* a row of categories scanned into a Category
ScanCategoryWithoutDescription(id) ==
    [ID |-> id, Name |-> categories[id].name, Description |-> "",
     Version |-> categories[id].version, CreatedAt |-> categories[id].created_at]
ScanCategory(id) ==
    [ID |-> id, Name |-> categories[id].name, Description |-> categories[id].description,
     Version |-> categories[id].version, CreatedAt |-> categories[id].created_at]

\* a row of products scanned into a Product
ScanProduct(id) ==
    [ID |-> id, Name |-> products[id].name, CategoryID |-> products[id].category_id,
     Description |-> products[id].description, Price |-> products[id].price,
     Quantity |-> products[id].quantity, Version |-> products[id].version,
     CreatedAt |-> products[id].created_at]

\* the columns of the tables besides id; price and quantity are the columns
\* that the statements of ProductModel name
CategoryColumns == {"name", "description", "version", "created_at"}
ProductColumns ==
    {"name", "category_id", "description", "price", "quantity", "version", "created_at"}

\* no GetAll has been called
NoList == [called |-> FALSE]

\* no request has been served
NoRequest == [served |-> FALSE]

\* Serve has not been called
NoServer ==
    [called |-> FALSE,
     httpServer |-> "none",    \* the HTTPServer of the Server
     main |-> "none",          \* the statement the main goroutine is at
     background |-> "none",    \* the statement the background goroutine is at
     notified |-> FALSE,       \* signal.Notify(quit, ...) has been called
     quit |-> <<>>,            \* the channel quit, of capacity 1
     signalled |-> FALSE,      \* a signal has been put into quit
     shuttingDown |-> FALSE,   \* httpServer.Shutdown has been called
     listenErr |-> "none",     \* what ListenAndServe returned
     shutdownErr |-> "none",   \* what Shutdown returned
     log |-> <<>>,             \* the messages of svr.logger.Info
     result |-> "none"]        \* what Serve returned

Init ==
    /\ categories = <<>>
    /\ catSeq = 0
    /\ products = <<>>
    /\ prodSeq = 0
    /\ pc = [c \in Callers |-> "idle"]
    /\ rec = [c \in Callers |-> ZeroCategory]
    /\ ret = [c \in Callers |-> NoError]
    /\ nUpdates = [t \in Tables |-> <<>>]
    /\ deleted = [t \in Tables |-> {}]
    /\ hold = [c \in Callers |-> "none"]
    /\ racing = [c \in Callers |-> FALSE]
    /\ list = NoList
    /\ http = NoRequest
    /\ server = NoServer

\* --------------------------------------------------------- CategoryModel
\* version integer NOT NULL DEFAULT 1
DefaultVersion == 1

\* INSERT INTO categories(name, description) VALUES($1, $2)
\* RETURNING id, created_at, version
CategoryModel_Insert(c, name, description, now, fault) ==
    /\ catSeq < MaxCategoryId
    /\ UNCHANGED <<products, prodSeq, deleted>>
    /\ IF fault
       THEN /\ rec' = [rec EXCEPT ![c] = [ZeroCategory EXCEPT !.Name = name,
                                                           !.Description = description]]
            /\ ret' = [ret EXCEPT ![c] = dbFault]
            /\ UNCHANGED <<categories, catSeq, nUpdates>>
       ELSE LET id == catSeq + 1 IN
            /\ catSeq' = id
            /\ categories' = categories @@
                   (id :> [name |-> name, description |-> description,
                           version |-> DefaultVersion, created_at |-> now])
            /\ rec' = [rec EXCEPT ![c] = [ID |-> id, Name |-> name,
                                          Description |-> description,
                                          Version |-> DefaultVersion, CreatedAt |-> now]]
            /\ ret' = [ret EXCEPT ![c] = NoError]
            /\ nUpdates' = [nUpdates EXCEPT !["categories"] = @ @@ (id :> 0)]

\* SELECT id, name, description, created_at, version FROM categories WHERE id = $1
CategoryModel_GetByID(c, id, fault) ==
    /\ UNCHANGED <<storeVars, nUpdates, deleted>>
    /\ IF fault
       THEN /\ ret' = [ret EXCEPT ![c] = dbFault]
            /\ rec' = [rec EXCEPT ![c] = ZeroCategory]
       ELSE IF id \in DOMAIN categories
       THEN /\ ret' = [ret EXCEPT ![c] = NoError]
            /\ rec' = [rec EXCEPT ![c] = ScanCategory(id)]
       ELSE \* Scan gives sql.ErrNoRows
            /\ ret' = [ret EXCEPT ![c] = GetByIDError(sqlErrNoRows)]
            /\ rec' = [rec EXCEPT ![c] = ZeroCategory]

\* SET version = version + 1 (categories), Set("version", product.Version+1) (products)
VersionKept(v) == v
VersionPlusOne(v) == v + 1

\* the row an UPDATE ... WHERE id = $3 AND version = $4 applies to
UpdateIgnoringVersion(tbl, id, version) == id \in DOMAIN tbl
UpdateMatches(tbl, id, version) == id \in DOMAIN tbl /\ tbl[id].version = version

\* UPDATE categories SET name = $1, description = $2, version = version + 1
\* WHERE id = $3 AND version = $4 RETURNING version
CategoryModel_UpdateWithCreatedAt(c, category, fault) ==
    /\ UNCHANGED <<catSeq, products, prodSeq, deleted>>
    /\ IF fault
       THEN /\ ret' = [ret EXCEPT ![c] = dbFault]
            /\ rec' = [rec EXCEPT ![c] = category]
            /\ UNCHANGED <<categories, nUpdates>>
       ELSE IF UpdateMatches(categories, category.ID, category.Version)
       THEN LET v == VersionPlusOne(categories[category.ID].version) IN
            /\ categories' = [categories EXCEPT ![category.ID].name = category.Name,
                                                ![category.ID].description = category.Description,
                                                ![category.ID].version = v,
                                                ![category.ID].created_at = category.CreatedAt]
            /\ rec' = [rec EXCEPT ![c] = [category EXCEPT !.Version = v]]
            /\ ret' = [ret EXCEPT ![c] = NoError]
            /\ nUpdates' = [nUpdates EXCEPT !["categories"][category.ID] = @ + 1]
       ELSE \* no row returned: Scan gives sql.ErrNoRows
            /\ ret' = [ret EXCEPT ![c] = UpdateError(sqlErrNoRows)]
            /\ rec' = [rec EXCEPT ![c] = category]
            /\ UNCHANGED <<categories, nUpdates>>
CategoryModel_Update(c, category, fault) ==
    /\ UNCHANGED <<catSeq, products, prodSeq, deleted>>
    /\ IF fault
       THEN /\ ret' = [ret EXCEPT ![c] = dbFault]
            /\ rec' = [rec EXCEPT ![c] = category]
            /\ UNCHANGED <<categories, nUpdates>>
       ELSE IF UpdateMatches(categories, category.ID, category.Version)
       THEN LET v == VersionPlusOne(categories[category.ID].version) IN
            /\ categories' = [categories EXCEPT ![category.ID].name = category.Name,
                                                ![category.ID].description = category.Description,
                                                ![category.ID].version = v]
            /\ rec' = [rec EXCEPT ![c] = [category EXCEPT !.Version = v]]
            /\ ret' = [ret EXCEPT ![c] = NoError]
            /\ nUpdates' = [nUpdates EXCEPT !["categories"][category.ID] = @ + 1]
       ELSE \* no row returned: Scan gives sql.ErrNoRows
            /\ ret' = [ret EXCEPT ![c] = UpdateError(sqlErrNoRows)]
            /\ rec' = [rec EXCEPT ![c] = category]
            /\ UNCHANGED <<categories, nUpdates>>

\* the products that reference category id (category_id bigint REFERENCES categories)
ReferencingNone(id) == {}
Referencing(id) == {p \in DOMAIN products : products[p].category_id = id}

\* a table without the row id
WithoutNothing(tbl, id) == tbl
Without(tbl, id) == [i \in DOMAIN tbl \ {id} |-> tbl[i]]

\* DELETE FROM categories WHERE id = $1
CategoryModel_Delete(c, id, fault) ==
    /\ UNCHANGED <<catSeq, products, prodSeq>>
    /\ rec' = [rec EXCEPT ![c] = ZeroCategory]
    /\ IF fault
       THEN /\ ret' = [ret EXCEPT ![c] = dbFault]
            /\ UNCHANGED <<categories, deleted, nUpdates>>
       ELSE IF id \in DOMAIN categories /\ Referencing(id) # {}
       THEN /\ ret' = [ret EXCEPT ![c] = pqForeignKeyError]
            /\ UNCHANGED <<categories, deleted, nUpdates>>
       ELSE IF id \in DOMAIN categories
       THEN /\ categories' = Without(categories, id)
            /\ deleted' = [deleted EXCEPT !["categories"] = @ \cup {id}]
            /\ nUpdates' = [nUpdates EXCEPT !["categories"] = Without(@, id)]
            /\ ret' = [ret EXCEPT ![c] = NoError]
       ELSE \* rowsAffected == 0
            /\ ret' = [ret EXCEPT ![c] = ErrRecordNotFound]
            /\ UNCHANGED <<categories, deleted, nUpdates>>

\* ---------------------------------------------------------- ProductModel
\* fmt.Errorf("category_id %d does not exist: %w", product.CategoryID, ErrInvalidCategoryId)
WrapInvalidCategoryId(categoryID) ==
    [text |-> "category_id " \o ToString(categoryID) \o " does not exist: "
                  \o ErrInvalidCategoryId.text,
     is |-> ErrInvalidCategoryId.is, code |-> ""]

\* INSERT INTO products (name,category_id,description,price,quantity)
\* VALUES (?,?,?,?,?) RETURNING id, created_at, version
\* The sequence value is drawn before the foreign key is checked.
ProductModel_Insert(c, name, categoryID, description, price, quantity, now, fault) ==
    /\ prodSeq < MaxProductId
    /\ UNCHANGED <<categories, catSeq, deleted>>
    /\ LET product == [ZeroProduct EXCEPT !.Name = name, !.CategoryID = categoryID,
                                          !.Description = description,
                                          !.Price = price, !.Quantity = quantity]
           id == prodSeq + 1
           err == IF fault THEN dbFault
                  ELSE IF categoryID \notin DOMAIN categories THEN pqForeignKeyError
                  ELSE NoError
       IN
       IF err # NoError
       THEN /\ prodSeq' = IF fault THEN prodSeq ELSE id
            /\ rec' = [rec EXCEPT ![c] = product]
            /\ ret' = [ret EXCEPT ![c] =
                          IF err.is = "pq.Error" /\ err.code = ErrForeignKeyViolation
                          THEN WrapInvalidCategoryId(categoryID)
                          ELSE err]
            /\ UNCHANGED <<products, nUpdates>>
       ELSE /\ prodSeq' = id
            /\ products' = products @@
                   (id :> [name |-> name, category_id |-> categoryID,
                           description |-> description, price |-> price,
                           quantity |-> quantity, version |-> DefaultVersion,
                           created_at |-> now])
            /\ rec' = [rec EXCEPT ![c] = [product EXCEPT !.ID = id, !.CreatedAt = now,
                                                         !.Version = DefaultVersion]]
            /\ ret' = [ret EXCEPT ![c] = NoError]
            /\ nUpdates' = [nUpdates EXCEPT !["products"] = @ @@ (id :> 0)]

\* SELECT id, name, category_id, description, price, quantity, created_at, version
\* FROM products WHERE id = ?
ProductModel_GetByID(c, id, fault) ==
    /\ UNCHANGED <<storeVars, nUpdates, deleted>>
    /\ IF fault
       THEN /\ ret' = [ret EXCEPT ![c] = dbFault]
            /\ rec' = [rec EXCEPT ![c] = ZeroProduct]
       ELSE IF id \in DOMAIN products
       THEN /\ ret' = [ret EXCEPT ![c] = NoError]
            /\ rec' = [rec EXCEPT ![c] = ScanProduct(id)]
       ELSE /\ ret' = [ret EXCEPT ![c] = GetByIDError(sqlErrNoRows)]
            /\ rec' = [rec EXCEPT ![c] = ZeroProduct]

\* UPDATE products SET name = ?, category_id = ?, description = ?, price = ?,
\* quantity = ?, version = <product.Version + 1> WHERE id = ? AND version = ?
\* RETURNING version
ProductModel_Update(c, product, fault) ==
    /\ UNCHANGED <<categories, catSeq, prodSeq, deleted>>
    /\ IF fault
       THEN /\ ret' = [ret EXCEPT ![c] = dbFault]
            /\ rec' = [rec EXCEPT ![c] = product]
            /\ UNCHANGED <<products, nUpdates>>
       ELSE IF ~UpdateMatches(products, product.ID, product.Version)
       THEN /\ ret' = [ret EXCEPT ![c] = UpdateError(sqlErrNoRows)]
            /\ rec' = [rec EXCEPT ![c] = product]
            /\ UNCHANGED <<products, nUpdates>>
       ELSE IF product.CategoryID \notin DOMAIN categories
       THEN \* the new row violates the foreign key
            /\ ret' = [ret EXCEPT ![c] = pqForeignKeyError]
            /\ rec' = [rec EXCEPT ![c] = product]
            /\ UNCHANGED <<products, nUpdates>>
       ELSE LET v == VersionPlusOne(product.Version) IN
            /\ products' = [products EXCEPT ![product.ID].name = product.Name,
                                            ![product.ID].category_id = product.CategoryID,
                                            ![product.ID].description = product.Description,
                                            ![product.ID].price = product.Price,
                                            ![product.ID].quantity = product.Quantity,
                                            ![product.ID].version = v]
            /\ rec' = [rec EXCEPT ![c] = [product EXCEPT !.Version = v]]
            /\ ret' = [ret EXCEPT ![c] = NoError]
            /\ nUpdates' = [nUpdates EXCEPT !["products"][product.ID] = @ + 1]

\* DELETE FROM products WHERE id = ?
ProductModel_Delete(c, id, fault) ==
    /\ UNCHANGED <<categories, catSeq, prodSeq>>
    /\ rec' = [rec EXCEPT ![c] = ZeroProduct]
    /\ IF fault
       THEN /\ ret' = [ret EXCEPT ![c] = dbFault]
            /\ UNCHANGED <<products, deleted, nUpdates>>
       ELSE IF id \in DOMAIN products
       THEN /\ products' = Without(products, id)
            /\ deleted' = [deleted EXCEPT !["products"] = @ \cup {id}]
            /\ nUpdates' = [nUpdates EXCEPT !["products"] = Without(@, id)]
            /\ ret' = [ret EXCEPT ![c] = NoError]
       ELSE /\ ret' = [ret EXCEPT ![c] = ErrRecordNotFound]
            /\ UNCHANGED <<products, deleted, nUpdates>>

\* ------------------------------------------- one request after the other
\* Spec: the repositories called by one goroutine, every call run to its end
Sequential(c) ==
    /\ c = "c1"
    /\ pc[c] = "idle"
    /\ list' = NoList
    /\ UNCHANGED <<pc, hold, racing, http, server>>

InsertCategory(c, name, description, now, fault) ==
    Sequential(c) /\ CategoryModel_Insert(c, name, description, now, fault)
GetCategory(c, id, fault) ==
    Sequential(c) /\ CategoryModel_GetByID(c, id, fault)
UpdateCategory(c, category, fault) ==
    Sequential(c) /\ CategoryModel_Update(c, category, fault)
DeleteCategory(c, id, fault) ==
    Sequential(c) /\ CategoryModel_Delete(c, id, fault)
InsertProduct(c, name, categoryID, description, price, quantity, now, fault) ==
    Sequential(c)
    /\ ProductModel_Insert(c, name, categoryID, description, price, quantity, now, fault)
GetProduct(c, id, fault) ==
    Sequential(c) /\ ProductModel_GetByID(c, id, fault)
UpdateProduct(c, product, fault) ==
    Sequential(c) /\ ProductModel_Update(c, product, fault)
DeleteProduct(c, id, fault) ==
    Sequential(c) /\ ProductModel_Delete(c, id, fault)

Next ==
    \/ \E c \in Callers, n \in CategoryNames, d \in Descs, t \in Times, f \in BOOLEAN :
          InsertCategory(c, n, d, t, f)
    \/ \E c \in Callers, id \in CategoryIds, f \in BOOLEAN : GetCategory(c, id, f)
    \/ \E c \in Callers, r \in CategoryStructs, f \in BOOLEAN : UpdateCategory(c, r, f)
    \/ \E c \in Callers, id \in CategoryIds, f \in BOOLEAN : DeleteCategory(c, id, f)
    \/ \E c \in Callers, n \in ProductNames, k \in CategoryIds, d \in Descs, p \in Prices,
          q \in Quantities, t \in Times, f \in BOOLEAN :
          InsertProduct(c, n, k, d, p, q, t, f)
    \/ \E c \in Callers, id \in ProductIds, f \in BOOLEAN : GetProduct(c, id, f)
    \/ \E c \in Callers, r \in ProductStructs, f \in BOOLEAN : UpdateProduct(c, r, f)
    \/ \E c \in Callers, id \in ProductIds, f \in BOOLEAN : DeleteProduct(c, id, f)

Spec == Init /\ [][Next]_vars

\* ------------------------------------------------- two concurrent callers
\* SpecConcurrent: two goroutines work on the repositories at the same time.
\* Each keeps the record it inserted or read, changes its payload and hands
\* it to Update; an Update is in flight between its call and its return, and
\* the statement it sends executes at some point in between.

\* caller c holds a record of table t
Holds(c, t) == rec[c].ID # 0 /\ TableOf(rec[c]) = t

\* the history after caller c's call that obtained (ok) or lost its record
HoldAfterRead(c, how) ==
    [hold EXCEPT ![c] = IF ret'[c] = NoError THEN how ELSE "none"]

\* the history after caller c's Update of row id of table t returned
HoldAfterUpdate(c, t, id) ==
    IF ret'[c] # NoError THEN hold
    ELSE [d \in Callers |->
            IF d = c THEN "observed"
            ELSE IF Holds(d, t) /\ rec[d].ID = id /\ hold[d] # "none" THEN "stale"
            ELSE hold[d]]

\* the history after caller c's Delete of row id of table t returned
HoldAfterDelete(c, t, id) ==
    [d \in Callers |->
        IF d = c THEN "none"
        ELSE IF ret'[c] = NoError /\ Holds(d, t) /\ rec[d].ID = id /\ hold[d] = "fresh"
        THEN "observed"
        ELSE hold[d]]

\* caller c, about to call Update with its record, meets the other caller's
\* Update in flight with the same (id, version), which the stored row has
StartsRace(c, t) ==
    /\ UpdateMatches(Table(t), rec[c].ID, rec[c].Version)
    /\ \E d \in Callers \ {c} :
          /\ pc[d] # "idle"
          /\ Holds(d, t)
          /\ rec[d].ID = rec[c].ID
          /\ rec[d].Version = rec[c].Version

RacingAfterCall(c, t) ==
    IF StartsRace(c, t) THEN [d \in Callers |-> TRUE]
    ELSE [racing EXCEPT ![c] = FALSE]

ReadCategory(c, id, fault) ==
    /\ pc[c] = "idle"
    /\ CategoryModel_GetByID(c, id, fault)
    /\ hold' = HoldAfterRead(c, "fresh")
    /\ racing' = [racing EXCEPT ![c] = FALSE]
    /\ UNCHANGED <<pc, requestVars, server>>

CallUpdateCategory(c, name) ==
    /\ pc[c] = "idle"
    /\ Holds(c, "categories")
    /\ rec[c].Version < MaxVersion
    /\ pc' = [pc EXCEPT ![c] = "CategoryModel.Update"]
    /\ rec' = [rec EXCEPT ![c].Name = name]
    /\ ret' = [ret EXCEPT ![c] = NoError]
    /\ racing' = RacingAfterCall(c, "categories")
    /\ UNCHANGED <<storeVars, nUpdates, deleted, hold, requestVars, server>>

ReturnUpdateCategory(c, fault) ==
    /\ pc[c] = "CategoryModel.Update"
    /\ CategoryModel_Update(c, rec[c], fault)
    /\ pc' = [pc EXCEPT ![c] = "idle"]
    /\ hold' = HoldAfterUpdate(c, "categories", rec[c].ID)
    /\ UNCHANGED <<racing, requestVars, server>>

RemoveCategory(c, id, fault) ==
    /\ pc[c] = "idle"
    /\ CategoryModel_Delete(c, id, fault)
    /\ hold' = HoldAfterDelete(c, "categories", id)
    /\ racing' = [racing EXCEPT ![c] = FALSE]
    /\ UNCHANGED <<pc, requestVars, server>>

ReadProduct(c, id, fault) ==
    /\ pc[c] = "idle"
    /\ ProductModel_GetByID(c, id, fault)
    /\ hold' = HoldAfterRead(c, "fresh")
    /\ racing' = [racing EXCEPT ![c] = FALSE]
    /\ UNCHANGED <<pc, requestVars, server>>

CallUpdateProduct(c, categoryID) ==
    /\ pc[c] = "idle"
    /\ Holds(c, "products")
    /\ rec[c].Version < MaxVersion
    /\ pc' = [pc EXCEPT ![c] = "ProductModel.Update"]
    /\ rec' = [rec EXCEPT ![c].CategoryID = categoryID]
    /\ ret' = [ret EXCEPT ![c] = NoError]
    /\ racing' = RacingAfterCall(c, "products")
    /\ UNCHANGED <<storeVars, nUpdates, deleted, hold, requestVars, server>>

ReturnUpdateProduct(c, fault) ==
    /\ pc[c] = "ProductModel.Update"
    /\ ProductModel_Update(c, rec[c], fault)
    /\ pc' = [pc EXCEPT ![c] = "idle"]
    /\ hold' = HoldAfterUpdate(c, "products", rec[c].ID)
    /\ UNCHANGED <<racing, requestVars, server>>

RemoveProduct(c, id, fault) ==
    /\ pc[c] = "idle"
    /\ ProductModel_Delete(c, id, fault)
    /\ hold' = HoldAfterDelete(c, "products", id)
    /\ racing' = [racing EXCEPT ![c] = FALSE]
    /\ UNCHANGED <<pc, requestVars, server>>

\* the store after every id has been inserted once: the categories, and the
\* products, which reference the first category
InitConcurrent ==
    /\ categories = [i \in CategoryIds |->
                        [name |-> "a", description |-> "d",
                         version |-> DefaultVersion, created_at |-> 1]]
    /\ catSeq = MaxCategoryId
    /\ products = [i \in ProductIds |->
                      [name |-> "p", category_id |-> 1, description |-> "d",
                       price |-> 0, quantity |-> 0,
                       version |-> DefaultVersion, created_at |-> 1]]
    /\ prodSeq = MaxProductId
    /\ pc = [c \in Callers |-> "idle"]
    /\ rec = [c \in Callers |-> ZeroCategory]
    /\ ret = [c \in Callers |-> NoError]
    /\ nUpdates = [t \in Tables |-> [i \in TableIds(t) |-> 0]]
    /\ deleted = [t \in Tables |-> {}]
    /\ hold = [c \in Callers |-> "none"]
    /\ racing = [c \in Callers |-> FALSE]
    /\ list = NoList
    /\ http = NoRequest
    /\ server = NoServer

NextConcurrent ==
    \/ \E c \in Callers, id \in CategoryIds : ReadCategory(c, id, FALSE)
    \/ \E c \in Callers, n \in CategoryNames : CallUpdateCategory(c, n)
    \/ \E c \in Callers, f \in BOOLEAN : ReturnUpdateCategory(c, f)
    \/ \E c \in Callers, id \in CategoryIds : RemoveCategory(c, id, FALSE)
    \/ \E c \in Callers, id \in ProductIds : ReadProduct(c, id, FALSE)
    \/ \E c \in Callers, k \in CategoryIds : CallUpdateProduct(c, k)
    \/ \E c \in Callers, f \in BOOLEAN : ReturnUpdateProduct(c, f)
    \/ \E c \in Callers, id \in ProductIds : RemoveProduct(c, id, FALSE)

SpecConcurrent == InitConcurrent /\ [][NextConcurrent]_vars

\* ------------------------------------------------------------------ GetAll
\* the pages and page sizes a GetAll call asks for
ListPages == {1, 2}
ListPageSizes == {1, 2}

\* a *time.Time: nil, or the address of a time
NilTime == <<>>
TimePtr(t) == <<t>>
Deref(ptr) == ptr[1]

\* the collation order of the names in use
NameOrder == <<"", "a", "abc", "b", "p">>
NameRank(name) == CHOOSE i \in 1 .. Len(NameOrder) : NameOrder[i] = name

\* the elements of a slice
Elems(slice) == {slice[i] : i \in 1 .. Len(slice)}

\* strings.Join(elems, sep)
RECURSIVE Join(_, _)
Join(elems, sep) ==
    IF Len(elems) = 0 THEN ""
    ELSE IF Len(elems) = 1 THEN elems[1]
    ELSE elems[1] \o sep \o Join(Tail(elems), sep)

\* sortFieldMapping of Filters.sortColumns
sortFieldMapping ==
    [k \in {"created_at", "-created_at", "id", "-id", "name", "-name"} |->
        CASE k = "created_at" -> [column |-> "created_at", direction |-> "ASC"]
          [] k = "-created_at" -> [column |-> "created_at", direction |-> "DESC"]
          [] k = "id" -> [column |-> "id", direction |-> "ASC"]
          [] k = "-id" -> [column |-> "id", direction |-> "DESC"]
          [] k = "name" -> [column |-> "name", direction |-> "ASC"]
          [] k = "-name" -> [column |-> "name", direction |-> "DESC"]]

\* the sort columns of Filters.sortColumns before they are joined: the column
\* of every key of Sorts, then "id ASC" unless id or -id is among the keys
sortColumnListAlwaysId(filters) ==
    Append([i \in 1 .. Len(filters.Sorts) |-> sortFieldMapping[filters.Sorts[i]]],
           sortFieldMapping["id"])
sortColumnList(filters) ==
    LET hasId == \E key \in Elems(filters.Sorts) : key = "id" \/ key = "-id"
        mapped == [i \in 1 .. Len(filters.Sorts) |-> sortFieldMapping[filters.Sorts[i]]]
    IN  IF hasId THEN mapped ELSE Append(mapped, sortFieldMapping["id"])

\* Filters.sortColumns
sortColumns(filters) ==
    LET cols == sortColumnList(filters)
    IN  Join([i \in 1 .. Len(cols) |-> cols[i].column \o " " \o cols[i].direction], ", ")

\* Filters.offset
offsetFromPage(filters) == filters.Page * filters.PageSize
offset(filters) == (filters.Page - 1) * filters.PageSize

\* Metadata{}
ZeroMetadata ==
    [CurrentPage |-> 0, PageSize |-> 0, FirstPage |-> 0, LastPage |-> 0, TotalRecords |-> 0]

calculateMetadata(totalRecords, page, pageSize) ==
    IF totalRecords = 0 THEN ZeroMetadata
    ELSE [CurrentPage |-> page, PageSize |-> pageSize, FirstPage |-> 1,
          LastPage |-> (totalRecords + pageSize - 1) \div pageSize,
          TotalRecords |-> totalRecords]

\* to_tsvector('simple', name) @@ plainto_tsquery('simple', $2), for names and
\* queries of one lower-case word
tsMatch(name, query) == name = query

\* the rows of tbl that satisfy the WHERE clause of CategoryModel.GetAll
WhereCategories(tbl, filters) ==
    {id \in DOMAIN tbl :
        /\ (Len(filters.IDs) = 0 \/ id \in Elems(filters.IDs))
        /\ (filters.Name = "" \/ tsMatch(tbl[id].name, filters.Name))
        /\ (filters.DateFrom = NilTime \/ tbl[id].created_at >= Deref(filters.DateFrom))
        /\ (filters.DateTo = NilTime \/ tbl[id].created_at <= Deref(filters.DateTo))}

\* the value ORDER BY compares for a column of row id
SortKey(tbl, id, column) ==
    CASE column = "id" -> id
      [] column = "name" -> NameRank(tbl[id].name)
      [] column = "created_at" -> tbl[id].created_at

\* row a comes before row b under ORDER BY cols
RECURSIVE Before(_, _, _, _)
Before(tbl, a, b, cols) ==
    IF Len(cols) = 0 THEN FALSE
    ELSE LET ka == SortKey(tbl, a, cols[1].column)
             kb == SortKey(tbl, b, cols[1].column)
         IN  IF ka = kb THEN Before(tbl, a, b, Tail(cols))
             ELSE IF cols[1].direction = "ASC" THEN ka < kb ELSE ka > kb

\* the ids of the rows in the order of ORDER BY cols
RECURSIVE OrderBy(_, _, _)
OrderBy(tbl, ids, cols) ==
    IF ids = {} THEN <<>>
    ELSE LET first == CHOOSE a \in ids : \A b \in ids \ {a} : Before(tbl, a, b, cols)
         IN  <<first>> \o OrderBy(tbl, ids \ {first}, cols)

\* LIMIT n OFFSET k
LimitOffset(rows, n, k) ==
    IF k >= Len(rows) THEN <<>>
    ELSE SubSeq(rows, k + 1, IF k + n < Len(rows) THEN k + n ELSE Len(rows))

\* SELECT count(*) OVER(), id, name, description, created_at, version
\* FROM categories WHERE ... ORDER BY <sortColumns> LIMIT $5 OFFSET $6
\* totalRecords is scanned from the rows of the page
CategoryModel_GetAll(filters, fault) ==
    IF fault
    THEN [records |-> <<>>, metadata |-> ZeroMetadata, err |-> dbFault]
    ELSE LET matching == WhereCategories(categories, filters)
             page == LimitOffset(OrderBy(categories, matching, sortColumnList(filters)),
                                 filters.PageSize, offset(filters))
             totalRecords == IF Len(page) = 0 THEN 0 ELSE Cardinality(matching)
         IN  [records |-> [i \in 1 .. Len(page) |-> ScanCategory(page[i])],
              metadata |-> calculateMetadata(totalRecords, filters.Page, filters.PageSize),
              err |-> NoError]

\* errors PostgreSQL raises for a statement it rejects
pqUndefinedColumn == [text |-> "pq: column \"ids\" does not exist", is |-> "pq.Error", code |-> "42703"]
pqGroupingError ==
    [text |-> "pq: column \"products.id\" must appear in the GROUP BY clause or be used in an aggregate function",
     is |-> "pq.Error", code |-> "42803"]

\* ProductModel.buildFilters: the WHERE clause (the DateTo restriction is added
\* when DateFrom is set)
WhereProducts(tbl, filters) ==
    {id \in DOMAIN tbl :
        /\ (filters.Name = "" \/ tsMatch(tbl[id].name, filters.Name))
        /\ (filters.DateFrom = NilTime \/ tbl[id].created_at >= Deref(filters.DateFrom))
        /\ (filters.DateFrom = NilTime \/
               (filters.DateTo # NilTime /\ tbl[id].created_at <= Deref(filters.DateTo)))}

\* ProductModel.countProducts: SELECT COUNT(*) FROM products WHERE ...
\* ORDER BY <sortColumns> LIMIT <PageSize> OFFSET <offset>.  PostgreSQL rejects
\* the ORDER BY of a plain column next to the aggregate (db = "postgres"); an
\* engine that accepts it applies LIMIT and OFFSET to the single row of the
\* aggregate (db = "lenient").
countProducts(filters, db) ==
    IF db = "postgres" THEN [totalRecords |-> 0, err |-> pqGroupingError]
    ELSE LET counted == <<Cardinality(WhereProducts(products, filters))>>
             row == LimitOffset(counted, filters.PageSize, offset(filters))
         IN  IF Len(row) = 0 THEN [totalRecords |-> 0, err |-> sqlErrNoRows]
             ELSE [totalRecords |-> row[1], err |-> NoError]

\* ProductModel.GetAll: the page, then countProducts
ProductModel_GetAll(filters, db) ==
    IF db = "fault"
    THEN [records |-> <<>>, metadata |-> ZeroMetadata, err |-> dbFault]
    ELSE IF Len(filters.IDs) > 0
    THEN \* WHERE ids IN (...): products has no column ids
         [records |-> <<>>, metadata |-> ZeroMetadata, err |-> pqUndefinedColumn]
    ELSE LET page == LimitOffset(OrderBy(products, WhereProducts(products, filters),
                                         sortColumnList(filters)),
                                 filters.PageSize, offset(filters))
             count == countProducts(filters, db)
         IN  IF count.err # NoError
             THEN [records |-> <<>>, metadata |-> ZeroMetadata, err |-> count.err]
             ELSE [records |-> [i \in 1 .. Len(page) |-> ScanProduct(page[i])],
                   metadata |-> calculateMetadata(count.totalRecords, filters.Page,
                                                  filters.PageSize),
                   err |-> NoError]

\* the filters a GetAll call is made with: no restriction, or one of IDs,
\* Name, DateFrom, DateTo, or both dates; every page and page size
NoRestriction == [IDs |-> <<>>, Name |-> "", DateFrom |-> NilTime, DateTo |-> NilTime]
ListRestrictions(ids) ==
    {NoRestriction, [NoRestriction EXCEPT !.Name = "a"],
     [NoRestriction EXCEPT !.DateTo = TimePtr(0)],
     [NoRestriction EXCEPT !.DateFrom = TimePtr(1), !.DateTo = TimePtr(1)]}
    \cup {[NoRestriction EXCEPT !.IDs = <<i>>] : i \in ids}
    \cup {[NoRestriction EXCEPT !.DateFrom = TimePtr(t)] : t \in {1, 2}}
ListSorts == {<<>>, <<"-id">>}
ListFilters(ids) ==
    {[IDs |-> r.IDs, Name |-> r.Name, DateFrom |-> r.DateFrom, DateTo |-> r.DateTo,
      Sorts |-> s, Page |-> p, PageSize |-> z] :
        r \in ListRestrictions(ids), s \in ListSorts,
        p \in ListPages, z \in ListPageSizes}

\* the records of table t that the filters select (all of IDs, Name, DateFrom
\* and DateTo, each when it is set)
Selected(t, filters) ==
    {id \in DOMAIN Table(t) :
        /\ (Len(filters.IDs) = 0 \/ id \in Elems(filters.IDs))
        /\ (filters.Name = "" \/ Table(t)[id].name = filters.Name)
        /\ (filters.DateFrom = NilTime \/ Table(t)[id].created_at >= Deref(filters.DateFrom))
        /\ (filters.DateTo = NilTime \/ Table(t)[id].created_at <= Deref(filters.DateTo))}

\* a GetAll call of table t, recorded with the number of records its filters
\* select and the ORDER BY clause of its statement
Listed(t, filters, result) ==
    [called |-> TRUE, table |-> t, filters |-> filters, total |-> Cardinality(Selected(t, filters)),
     order |-> sortColumns(filters),
     records |-> result.records, metadata |-> result.metadata, err |-> result.err]

GetAllCategories(filters, fault) ==
    /\ pc["c1"] = "idle"
    /\ list' = Listed("categories", filters, CategoryModel_GetAll(filters, fault))
    /\ rec' = [rec EXCEPT !["c1"] = ZeroCategory]
    /\ ret' = [ret EXCEPT !["c1"] = list'.err]
    /\ UNCHANGED <<storeVars, pc, histVars, http, server>>

GetAllProducts(filters, db) ==
    /\ pc["c1"] = "idle"
    /\ list' = Listed("products", filters, ProductModel_GetAll(filters, db))
    /\ rec' = [rec EXCEPT !["c1"] = ZeroProduct]
    /\ ret' = [ret EXCEPT !["c1"] = list'.err]
    /\ UNCHANGED <<storeVars, pc, histVars, http, server>>

\* SpecList: one goroutine fills the store and lists it
NextList ==
    \/ \E n \in CategoryNames, d \in Descs, t \in Times : InsertCategory("c1", n, d, t, FALSE)
    \/ \E id \in CategoryIds : DeleteCategory("c1", id, FALSE)
    \/ \E n \in ProductNames, k \in CategoryIds, d \in Descs, p \in Prices,
          q \in Quantities, t \in Times : InsertProduct("c1", n, k, d, p, q, t, FALSE)
    \/ \E f \in ListFilters(CategoryIds), fault \in BOOLEAN : GetAllCategories(f, fault)
    \/ \E f \in ListFilters(ProductIds), db \in {"fault", "postgres", "lenient"} :
          GetAllProducts(f, db)

SpecList == Init /\ [][NextList]_vars

\* C5: after a GetAll call that returned no error, on a store where T records
\* match the filters: if T > 0 the Metadata has total_records = T,
\* first_page = 1 and last_page = ceil(T/S), for the requested page whatever
\* it is; and the Metadata is all-zero if and only if T = 0.
C5_Counterexample ==
    (list.called /\ list.err = NoError) =>
        LET T == list.total
            S == list.filters.PageSize
        IN  /\ T > 0 =>
                  /\ list.metadata.TotalRecords = T
                  /\ list.metadata.FirstPage = 1
                  /\ list.metadata.LastPage * S >= T
                  /\ (list.metadata.LastPage - 1) * S < T
            /\ list.metadata = ZeroMetadata <=> T = 0

\* ----------------------------------------------------------- HTTP handlers
StatusOK == 200
StatusCreated == 201
StatusBadRequest == 400
StatusNotFound == 404
StatusUnprocessableEntity == 422
StatusInternalServerError == 500

\* errors of encoding/json and of the connection
jsonMarshalError == [text |-> "json: unsupported value", is |-> "json.UnsupportedValueError", code |-> ""]
writeError == [text |-> "write: broken pipe", is |-> "net.OpError", code |-> ""]

\* errors.New(text), fmt.Errorf without %w
NewError(text) == [text |-> text, is |-> text, code |-> ""]

\* what a request has produced so far: the ResponseWriter (status line,
\* headers, body: the JSON documents written), the log, and the order in which
\* log entries, the header and the body were emitted
NewResponse ==
    [status |-> 0, wroteHeader |-> FALSE, contentType |-> "", location |-> "",
     body |-> <<>>, log |-> <<>>, events |-> <<>>, failed |-> "none"]

\* ResponseWriter.WriteHeader: the first call fixes the status, a later call
\* is superfluous and ignored
WriteHeader(w, status) ==
    IF w.wroteHeader THEN w
    ELSE [w EXCEPT !.status = status, !.wroteHeader = TRUE,
                   !.events = Append(@, "WriteHeader")]

\* ResponseWriter.Write: sends the bytes, or fails and sends nothing
Write(w, js, writes) ==
    IF writes THEN [w EXCEPT !.body = Append(@, js), !.events = Append(@, "Write")]
    ELSE w

\* h.logger.Error(err.Error(), "method", method, "uri", uri)
logError(w, r, err) ==
    [w EXCEPT !.log = Append(@, [msg |-> err.text, method |-> r.method, uri |-> r.uri]),
              !.events = Append(@, "log")]

\* writeJSON: marshals == json.MarshalIndent succeeds on data,
\* writes == w.Write succeeds
writeJSON(w, r, status, data, location, marshals, writes) ==
    IF marshals
    THEN LET sent == Write(WriteHeader([w EXCEPT !.location = location,
                                                 !.contentType = "application/json"],
                                       status),
                           data, writes)
         IN  IF writes THEN sent
             ELSE WriteHeader(logError([sent EXCEPT !.failed = "write"], r, writeError),
                              StatusInternalServerError)
    ELSE WriteHeader(logError([w EXCEPT !.failed = "marshal"], r, jsonMarshalError),
                     StatusInternalServerError)

\* errorResponse: log the error, then write envelope{"error": message}
errorResponseWritingFirst(w, r, status, message, err, marshals, writes) ==
    logError(writeJSON(w, r, status, [error |-> message], "", marshals, writes), r, err)
errorResponse(w, r, status, message, err, marshals, writes) ==
    writeJSON(logError(w, r, err), r, status, [error |-> message], "", marshals, writes)

badRequestResponse(w, r, err, writes) ==
    errorResponse(w, r, StatusBadRequest, err.text, err, TRUE, writes)

notFoundResponse(w, r, err, writes) ==
    errorResponse(w, r, StatusNotFound, "the requested resource could not be found",
                  err, TRUE, writes)

serverErrorResponse(w, r, err, writes) ==
    errorResponse(w, r, StatusInternalServerError,
                  "the server encountered a problem and could not process your request",
                  err, TRUE, writes)

\* fieldJSONMap
fieldJSONMap ==
    [k \in {"Name", "CategoryID", "Description", "Price", "Quantity"} |->
        CASE k = "Name" -> "name"
          [] k = "CategoryID" -> "category_id"
          [] k = "Description" -> "description"
          [] k = "Price" -> "price"
          [] k = "Quantity" -> "quantity"]

getJsonName(key, fieldMap) == IF key \in DOMAIN fieldMap THEN fieldMap[key] ELSE key

\* getFieldErrorMessage, for the tags the DTOs and Filters use
getFieldErrorMessage(fe) ==
    CASE fe.tag = "required" -> "is required"
      [] fe.tag = "min" -> "must be at least " \o fe.param \o " characters long"
      [] fe.tag = "max" -> "must be at most " \o fe.param \o " characters long"
      [] fe.tag = "lte" -> "must be less than or equal to " \o fe.param
      [] fe.tag = "gte" -> "must be greater than or equal to " \o fe.param
      [] fe.tag = "oneof" -> "must be one of [" \o fe.param \o "]"
      [] OTHER -> "failed validation: " \o fe.tag

\* validator.ValidationErrors.Error()
ValidationError(fes) ==
    [text |-> Join([i \in 1 .. Len(fes) |->
                       "Key: '" \o fes[i].namespace \o "' Error:Field validation for '"
                       \o fes[i].field \o "' failed on the '" \o fes[i].tag \o "' tag"],
                   "\n"),
     is |-> "validator.ValidationErrors", code |-> ""]

\* getValidationMessages: one message per failing field, keyed by its JSON name
getValidationMessages(fes) ==
    [key \in {getJsonName(fes[i].field, fieldJSONMap) : i \in 1 .. Len(fes)} |->
        LET last == CHOOSE i \in 1 .. Len(fes) :
                        /\ getJsonName(fes[i].field, fieldJSONMap) = key
                        /\ \A j \in i + 1 .. Len(fes) :
                               getJsonName(fes[j].field, fieldJSONMap) # key
        IN  getFieldErrorMessage(fes[last])]

failedValidationResponse(w, r, fes, writes) ==
    errorResponse(w, r, StatusUnprocessableEntity, getValidationMessages(fes),
                  ValidationError(fes), TRUE, writes)

\* --- decoding and validation of request bodies
\* http.MaxBytesReader(w, r.Body, 1_048_576)
MaxBytes == 1048576

\* A request body, by what the decoder meets in it:
\*   length  its number of bytes
\*   json    its first JSON value: "object", or "empty" (no byte), "truncated"
\*           (the body ends inside the value), "syntax" (a byte that no JSON
\*           value can hold)
\*   stop    the number of bytes the first Decode has to read to return
\*   value   the fields of the DTO that the object sets
\*   faults  in document order, the members of the object that the DTO cannot
\*           take: an unknown key, or a value of another type than the field's
\*   rest    what follows the first value: "none", "space" (white space up to
\*           the end of the body) or "value" (more content)
Body(json, length, stop, value, faults, rest) ==
    [json |-> json, length |-> length, stop |-> stop, value |-> value,
     faults |-> faults, rest |-> rest]

\* the error of dec.Decode(dst) for the first fault of the object
DecodeFaultError(fault) ==
    IF fault.kind = "unknown"
    THEN NewError("json: unknown field \"" \o fault.field \o "\"")
    ELSE NewError("body contains incorrect JSON type for field \"" \o fault.field \o "\"")

\* readJSON: one Decode into the DTO through the MaxBytesReader with unknown
\* fields disallowed, then a second Decode that has to meet io.EOF
readJSONLenient(body) ==
    IF body.stop > MaxBytes
    THEN [value |-> <<>>,
          err |-> NewError("body must not be larger than " \o ToString(MaxBytes) \o " bytes")]
    ELSE CASE body.json = "empty" ->
                [value |-> <<>>, err |-> NewError("body must not be empty")]
           [] body.json = "truncated" ->
                [value |-> <<>>, err |-> NewError("body contains badly-formed JSON")]
           [] body.json = "syntax" ->
                [value |-> <<>>,
                 err |-> NewError("body contains badly-formed JSON (at character "
                                      \o ToString(body.stop) \o ")")]
           [] body.json = "object" ->
                LET typed == SelectSeq(body.faults, LAMBDA f : f.kind # "unknown")
                IN  IF Len(typed) > 0
                    THEN [value |-> <<>>, err |-> DecodeFaultError(typed[1])]
                    ELSE IF body.rest = "none"
                              \/ (body.rest = "space" /\ body.length <= MaxBytes)
                    THEN [value |-> body.value, err |-> NoError]
                    ELSE [value |-> <<>>,
                          err |-> NewError("body must only contain a single JSON value")]
readJSON(body) ==
    IF body.stop > MaxBytes
    THEN [value |-> <<>>,
          err |-> NewError("body must not be larger than " \o ToString(MaxBytes) \o " bytes")]
    ELSE CASE body.json = "empty" ->
                [value |-> <<>>, err |-> NewError("body must not be empty")]
           [] body.json = "truncated" ->
                [value |-> <<>>, err |-> NewError("body contains badly-formed JSON")]
           [] body.json = "syntax" ->
                [value |-> <<>>,
                 err |-> NewError("body contains badly-formed JSON (at character "
                                      \o ToString(body.stop) \o ")")]
           [] body.json = "object" ->
                IF Len(body.faults) > 0
                THEN [value |-> <<>>, err |-> DecodeFaultError(body.faults[1])]
                ELSE IF body.rest = "none"
                          \/ (body.rest = "space" /\ body.length <= MaxBytes)
                THEN [value |-> body.value, err |-> NoError]
                ELSE [value |-> <<>>,
                      err |-> NewError("body must only contain a single JSON value")]

FieldError(struct, field, tag, param) ==
    [namespace |-> struct \o "." \o field, field |-> field, tag |-> tag, param |-> param]

\* validate:"required,min=3,max=100"
NameRules(struct, name) ==
    IF name = "" THEN <<FieldError(struct, "Name", "required", "")>>
    ELSE IF Len(name) < 3 THEN <<FieldError(struct, "Name", "min", "3")>>
    ELSE IF Len(name) > 100 THEN <<FieldError(struct, "Name", "max", "100")>>
    ELSE <<>>

\* validate:"omitempty,gte=0"
GteZeroRules(struct, field, n) ==
    IF n # 0 /\ n < 0 THEN <<FieldError(struct, field, "gte", "0")>> ELSE <<>>

\* h.validator.Struct(payload) for categoryDTO and productDTO
validateCategoryDTO(payload) == NameRules("categoryDTO", payload.name)
validateProductDTO(payload) ==
    NameRules("productDTO", payload.name)
    \o (IF payload.category_id = 0
        THEN <<FieldError("productDTO", "CategoryID", "required", "")>> ELSE <<>>)
    \o GteZeroRules("productDTO", "Price", payload.price)
    \o GteZeroRules("productDTO", "Quantity", payload.quantity)

\* h.validator.Struct(filters): the validate tags of Filters
SortSafelist == {"id", "created_at", "name", "-id", "-created_at", "-name"}
validateFilters(filters) ==
    LET indexes == [i \in 1 .. Len(filters.Sorts) |-> i]
        unknown(i) == filters.Sorts[i] \notin SortSafelist
        bad == SelectSeq(indexes, unknown)
    IN  (IF Len(filters.Name) > 100
         THEN <<FieldError("Filters", "Name", "max", "100")>> ELSE <<>>)
        \o (IF Len(filters.Sorts) > 4 THEN <<FieldError("Filters", "Sorts", "max", "4")>>
            ELSE [k \in 1 .. Len(bad) |->
                     FieldError("Filters", "Sorts[" \o ToString(bad[k] - 1) \o "]", "oneof",
                                "id created_at name -id -created_at -name")])
        \o (IF filters.Page < 1 THEN <<FieldError("Filters", "Page", "gte", "1")>>
            ELSE IF filters.Page > 100000000
            THEN <<FieldError("Filters", "Page", "lte", "10_0000_000")>> ELSE <<>>)
        \o (IF filters.PageSize < 1 THEN <<FieldError("Filters", "PageSize", "gte", "1")>>
            ELSE IF filters.PageSize > 100
            THEN <<FieldError("Filters", "PageSize", "lte", "100")>> ELSE <<>>)

\* --- parsing of path and query parameters
\* the integers that the path and query parameters in use spell
ParsedInts == -1 .. MaxCategoryId + 1

\* spellings that strconv accepts besides the one %d prints: leading zeros, a
\* plus sign
OtherSpellings == [s \in {"00", "+1"} |-> IF s = "00" THEN 0 ELSE 1]

\* strconv.Atoi / strconv.ParseInt(s, 10, 64): s spells an integer
IsInt(s) == s \in DOMAIN OtherSpellings \/ \E i \in ParsedInts : ToString(i) = s
Atoi(s) ==
    IF s \in DOMAIN OtherSpellings THEN OtherSpellings[s]
    ELSE CHOOSE i \in ParsedInts : ToString(i) = s

\* valErrs[key] = message
Put(valErrs, key, message) ==
    [k \in DOMAIN valErrs \cup {key} |-> IF k = key THEN message ELSE valErrs[k]]

ErrInvalidIDParam == NewError("invalid id parameter")

\* fmt.Errorf("%w: %s", err, detail)
Wrap(err, detail) == [text |-> err.text \o ": " \o detail, is |-> err.is, code |-> err.code]

readIDParam(idString) ==
    IF IsInt(idString) THEN [id |-> Atoi(idString), err |-> NoError]
    ELSE [id |-> 0, err |-> Wrap(ErrInvalidIDParam, idString)]

\* readCSV: the value of a query parameter is given as its comma-separated
\* entries, which is what strings.Split(csv, ",") returns
readCSV(qs, key, defaultValue) == IF qs[key] = <<>> THEN defaultValue ELSE qs[key]

readIntNotRecording(qs, key, defaultValue, valErrs) ==
    IF qs[key] = "" \/ ~IsInt(qs[key]) THEN [value |-> defaultValue, valErrs |-> valErrs]
    ELSE [value |-> Atoi(qs[key]), valErrs |-> valErrs]
readInt(qs, key, defaultValue, valErrs) ==
    IF qs[key] = "" THEN [value |-> defaultValue, valErrs |-> valErrs]
    ELSE IF ~IsInt(qs[key])
    THEN [value |-> defaultValue, valErrs |-> Put(valErrs, key, "must be an integer value")]
    ELSE [value |-> Atoi(qs[key]), valErrs |-> valErrs]

\* the RFC3339 timestamps in use and the times they denote
RFC3339 == [s \in {"1970-01-01T00:00:01Z"} |-> 1]

\* readTime: an RFC3339 timestamp, else "invalid datetime: <raw>"
readTime(qs, key, defaultValue, valErrs) ==
    IF qs[key] = "" THEN [value |-> defaultValue, valErrs |-> valErrs]
    ELSE IF qs[key] \notin DOMAIN RFC3339
    THEN [value |-> defaultValue,
          valErrs |-> Put(valErrs, key, "invalid datetime: " \o qs[key])]
    ELSE [value |-> TimePtr(RFC3339[qs[key]]), valErrs |-> valErrs]

\* readInt64Slice: comma-separated integers, else invalid id: "<token>"
readInt64Slice(qs, key, defaultValue, valErrs) ==
    LET tokens == qs[key]
        malformed == {i \in 1 .. Len(tokens) : ~IsInt(tokens[i])}
        first == CHOOSE i \in malformed : \A j \in malformed : i <= j
    IN  IF Len(tokens) = 0 THEN [value |-> defaultValue, valErrs |-> valErrs]
        ELSE IF malformed # {}
        THEN [value |-> defaultValue,
              valErrs |-> Put(valErrs, key, "invalid id: \"" \o tokens[first] \o "\"")]
        ELSE [value |-> [i \in 1 .. Len(tokens) |-> Atoi(tokens[i])], valErrs |-> valErrs]

\* createErr: the parse errors as one error, "<key> <message>" joined by "; "
\* in field order
ParseFields == <<"date_from", "date_to", "id", "page", "page_size">>
createErr(valErrs) ==
    LET recorded(key) == key \in DOMAIN valErrs
        keys == SelectSeq(ParseFields, recorded)
    IN  NewError(Join([i \in 1 .. Len(keys) |-> keys[i] \o " " \o valErrs[keys[i]]], "; "))

\* --- the handlers
\* a served request: the handler, the request, the repository method it
\* called, the error it answered, and the response it produced
Served(handler, r, called, cause, w) ==
    [served |-> TRUE, handler |-> handler, request |-> r, called |-> called,
     cause |-> cause, response |-> w]

\* the handler of the request runs on goroutine c1 from start to end
Serving ==
    /\ pc["c1"] = "idle"
    /\ UNCHANGED <<pc, hold, racing, list, server>>

\* a request that ends before its repository call: the record and the error
\* of the call are the handler's locals, still zero
NoRepositoryCall ==
    /\ rec' = [rec EXCEPT !["c1"] = ZeroCategory]
    /\ ret' = [ret EXCEPT !["c1"] = NoError]
    /\ UNCHANGED <<storeVars, nUpdates, deleted>>

\* POST /v1/api/categories
CreateCategoryHandler(body, now, fault, writes) ==
    /\ Serving
    /\ LET r == [method |-> "POST", uri |-> "/v1/api/categories", body |-> body]
           payload == readJSON(body)
           fes == validateCategoryDTO(payload.value)
       IN  IF payload.err # NoError
           THEN /\ NoRepositoryCall
                /\ http' = Served("CreateCategoryHandler", r, "none", payload.err,
                                  badRequestResponse(NewResponse, r, payload.err, writes))
           ELSE IF Len(fes) > 0
           THEN /\ NoRepositoryCall
                /\ http' = Served("CreateCategoryHandler", r, "none", ValidationError(fes),
                                  failedValidationResponse(NewResponse, r, fes, writes))
           ELSE /\ CategoryModel_Insert("c1", payload.value.name,
                                        payload.value.description, now, fault)
                /\ http' = Served("CreateCategoryHandler", r, "Insert", ret'["c1"],
                       IF ret'["c1"] # NoError
                       THEN serverErrorResponse(NewResponse, r, ret'["c1"], writes)
                       ELSE writeJSON(NewResponse, r, StatusCreated,
                                      [category |-> rec'["c1"]],
                                      "/v1/api/categories/" \o ToString(rec'["c1"].ID),
                                      TRUE, writes))

\* POST /v1/api/products
CreateProductHandler(body, now, fault, writes) ==
    /\ Serving
    /\ LET r == [method |-> "POST", uri |-> "/v1/api/products", body |-> body]
           payload == readJSON(body)
           fes == validateProductDTO(payload.value)
       IN  IF payload.err # NoError
           THEN /\ NoRepositoryCall
                /\ http' = Served("CreateProductHandler", r, "none", payload.err,
                                  badRequestResponse(NewResponse, r, payload.err, writes))
           ELSE IF Len(fes) > 0
           THEN /\ NoRepositoryCall
                /\ http' = Served("CreateProductHandler", r, "none", ValidationError(fes),
                                  failedValidationResponse(NewResponse, r, fes, writes))
           ELSE /\ ProductModel_Insert("c1", payload.value.name, payload.value.category_id,
                                       payload.value.description, payload.value.price,
                                       payload.value.quantity, now, fault)
                /\ http' = Served("CreateProductHandler", r, "Insert", ret'["c1"],
                       IF ret'["c1"] # NoError
                       THEN IF errorsIs(ret'["c1"], ErrInvalidCategoryId)
                            THEN badRequestResponse(NewResponse, r, ret'["c1"], writes)
                            ELSE serverErrorResponse(NewResponse, r, ret'["c1"], writes)
                       ELSE writeJSON(NewResponse, r, StatusCreated,
                                      [product |-> rec'["c1"]],
                                      "/v1/api/products/" \o ToString(rec'["c1"].ID),
                                      TRUE, writes))

\* GET /v1/api/categories/{id}
GetCategoryHandler(idString, fault, writes) ==
    /\ Serving
    /\ LET r == [method |-> "GET", uri |-> "/v1/api/categories/" \o idString,
                 id |-> idString]
           param == readIDParam(idString)
           err == IF param.err = NoError /\ param.id < 1
                  THEN Wrap(ErrInvalidIDParam, ToString(param.id))
                  ELSE param.err
       IN  IF param.err # NoError \/ param.id < 1
           THEN /\ NoRepositoryCall
                /\ http' = Served("GetCategoryHandler", r, "none", err,
                                  badRequestResponse(NewResponse, r, err, writes))
           ELSE /\ CategoryModel_GetByID("c1", param.id, fault)
                /\ http' = Served("GetCategoryHandler", r, "GetByID", ret'["c1"],
                       IF ret'["c1"] # NoError
                       THEN IF errorsIs(ret'["c1"], ErrRecordNotFound)
                            THEN notFoundResponse(NewResponse, r, ret'["c1"], writes)
                            ELSE serverErrorResponse(NewResponse, r, ret'["c1"], writes)
                       ELSE writeJSON(NewResponse, r, StatusOK, [category |-> rec'["c1"]],
                                      "", TRUE, writes))

\* url.Values.Encode of the query: key=value of the keys present, in key order
QueryKeys == <<"date_from", "date_to", "id", "name", "page", "page_size", "sort">>
RawQuery(qs) ==
    LET raw(key) == IF key \in {"id", "sort"} THEN Join(qs[key], ",") ELSE qs[key]
        present(key) == raw(key) # ""
        keys == SelectSeq(QueryKeys, present)
    IN  Join([i \in 1 .. Len(keys) |-> keys[i] \o "=" \o raw(keys[i])], "&")

\* GET /v1/api/categories?id=&name=&date_from=&date_to=&page=&page_size=&sort=
ListCategoryHandler(qs, fault, writes) ==
    /\ Serving
    /\ LET r == [method |-> "GET", uri |-> "/v1/api/categories?" \o RawQuery(qs),
                 query |-> qs]
           dateFrom == readTime(qs, "date_from", NilTime, <<>>)
           dateTo == readTime(qs, "date_to", NilTime, dateFrom.valErrs)
           ids == readInt64Slice(qs, "id", <<>>, dateTo.valErrs)
           page == readInt(qs, "page", 1, ids.valErrs)
           pageSize == readInt(qs, "page_size", 20, page.valErrs)
           valErrs == pageSize.valErrs
           filters == [IDs |-> ids.value, Name |-> qs["name"], DateFrom |-> dateFrom.value,
                       DateTo |-> dateTo.value, Sorts |-> readCSV(qs, "sort", <<>>),
                       Page |-> page.value, PageSize |-> pageSize.value]
           fes == validateFilters(filters)
           result == CategoryModel_GetAll(filters, fault)
       IN  IF DOMAIN valErrs # {}
           THEN /\ NoRepositoryCall
                /\ http' = Served("ListCategoryHandler", r, "none", createErr(valErrs),
                                  errorResponse(NewResponse, r, StatusBadRequest, valErrs,
                                                createErr(valErrs), TRUE, writes))
           ELSE IF Len(fes) > 0
           THEN /\ NoRepositoryCall
                /\ http' = Served("ListCategoryHandler", r, "none", ValidationError(fes),
                                  failedValidationResponse(NewResponse, r, fes, writes))
           ELSE /\ rec' = [rec EXCEPT !["c1"] = ZeroCategory]
                /\ ret' = [ret EXCEPT !["c1"] = result.err]
                /\ UNCHANGED <<storeVars, nUpdates, deleted>>
                /\ http' = Served("ListCategoryHandler", r, "GetAll", result.err,
                       IF result.err # NoError
                       THEN serverErrorResponse(NewResponse, r, result.err, writes)
                       ELSE writeJSON(NewResponse, r, StatusOK,
                                      [categories |-> result.records,
                                       metadata |-> result.metadata],
                                      "", TRUE, writes))

\* writeJSON called with an envelope of any content, as errorResponse and the
\* handlers do
WriteEnvelope(status, marshals, writes) ==
    /\ Serving
    /\ NoRepositoryCall
    /\ LET r == [method |-> "GET", uri |-> "/test/endpoint"]
       IN  http' = Served("writeJSON", r, "none",
                          IF ~marshals THEN jsonMarshalError
                          ELSE IF ~writes THEN writeError ELSE NoError,
                          writeJSON(NewResponse, r, status, [error |-> "test error message"],
                                    "", marshals, writes))

\* --- the requests served
\* bodies that are not one JSON object: "", {"name": , and aaa... of 10 and of
\* MaxBytes + 1 bytes
BrokenBodies ==
    {Body("empty", 0, 0, <<>>, <<>>, "none"),
     Body("truncated", 8, 8, <<>>, <<>>, "none"),
     Body("syntax", 10, 1, <<>>, <<>>, "none"),
     Body("syntax", MaxBytes + 1, 1, <<>>, <<>>, "none")}

\* the bodies built around the object that sets value: the object alone, with
\* white space after it (within and beyond MaxBytes), with a second value
\* after it, with a key the DTO does not have, with a value of the wrong type
\* for field, and with a string value that runs beyond MaxBytes
Unknown(key) == [kind |-> "unknown", field |-> key]
Mistyped(field) == [kind |-> "type", field |-> field]
BodiesAround(value, field) ==
    {Body("object", 40, 40, value, <<>>, "none"),
     Body("object", 50, 40, value, <<>>, "space"),
     Body("object", MaxBytes + 40, 40, value, <<>>, "space"),
     Body("object", 80, 40, value, <<>>, "value"),
     Body("object", 60, 60, value, <<Mistyped(field)>>, "none"),
     Body("object", MaxBytes + 40, MaxBytes + 40, value, <<>>, "none")}
    \cup {Body("object", 60, 60, value, <<Unknown(key)>>, "none") :
             key \in {"id", "version", "created_at"}}

CategoryBodies ==
    BrokenBodies
    \cup {Body("object", 40, 40, [name |-> n, description |-> "d"], <<>>, "none") :
             n \in {"", "ab", "abc"}}
    \cup BodiesAround([name |-> "abc", description |-> "d"], "name")
ProductBodies ==
    BrokenBodies
    \cup {Body("object", 40, 40,
                [name |-> n, category_id |-> k, description |-> "d",
                 price |-> 0, quantity |-> 0], <<>>, "none") :
             n \in {"", "abc"}, k \in 0 .. MaxCategoryId}
    \cup BodiesAround([name |-> "abc", category_id |-> 1, description |-> "d",
                       price |-> 0, quantity |-> 0], "price")
IdStrings == {"abc", "00", "+1"} \cup {ToString(i) : i \in -1 .. MaxCategoryId}

\* query strings: every combination of malformed id, date_from, date_to, page
\* and page_size, and well-formed ones
ParseParams == {"id", "date_from", "date_to", "page", "page_size"}
NoQuery ==
    [id |-> <<>>, name |-> "", sort |-> <<>>, page |-> "", page_size |-> "",
     date_from |-> "", date_to |-> ""]
MalformedQuery(M) ==
    [id |-> IF "id" \in M THEN <<"1", ".">> ELSE <<>>,
     name |-> "", sort |-> <<>>,
     page |-> IF "page" \in M THEN "as" ELSE "",
     page_size |-> IF "page_size" \in M THEN "bk" ELSE "",
     date_from |-> IF "date_from" \in M THEN "2020-01-30" ELSE "",
     date_to |-> IF "date_to" \in M THEN "2025-08-10" ELSE ""]
MalformedQueries ==
    {MalformedQuery(M) : M \in (SUBSET ParseParams) \ {{}}}
    \cup {[NoQuery EXCEPT !.page = "as", !.sort = <<"-test">>]}
WellFormedQueries ==
    {NoQuery,
     [NoQuery EXCEPT !.page = "2", !.page_size = "1"],
     [NoQuery EXCEPT !.page = "0"],
     [NoQuery EXCEPT !.page = "0", !.page_size = "0", !.sort = <<"-test">>],
     [NoQuery EXCEPT !.id = <<"1">>, !.sort = <<"-id">>],
     [NoQuery EXCEPT !.sort = <<"name", "-test">>],
     [NoQuery EXCEPT !.date_from = "1970-01-01T00:00:01Z", !.name = "abc"]}

\* SpecHandlers: requests served one after the other; a database fault is an
\* input of the requests that reach the repository
NextHandlers ==
    \/ \E b \in CategoryBodies, t \in Times, fault \in BOOLEAN, writes \in BOOLEAN :
          CreateCategoryHandler(b, t, fault, writes)
    \/ \E b \in ProductBodies, t \in Times, fault \in BOOLEAN, writes \in BOOLEAN :
          CreateProductHandler(b, t, fault, writes)
    \/ \E s \in IdStrings, fault \in BOOLEAN, writes \in BOOLEAN :
          GetCategoryHandler(s, fault, writes)
    \/ \E qs \in MalformedQueries, writes \in BOOLEAN :
          ListCategoryHandler(qs, FALSE, writes)
    \/ \E qs \in WellFormedQueries, fault \in BOOLEAN, writes \in BOOLEAN :
          ListCategoryHandler(qs, fault, writes)
    \/ \E status \in {StatusCreated, StatusBadRequest}, marshals \in BOOLEAN,
          writes \in BOOLEAN : WriteEnvelope(status, marshals, writes)

SpecHandlers == Init /\ [][NextHandlers]_vars

\* the status line the client receives
ClientStatus(w) == IF w.wroteHeader THEN w.status ELSE StatusOK

ErrorStatuses ==
    {StatusBadRequest, StatusNotFound, StatusUnprocessableEntity, StatusInternalServerError}

Handlers ==
    {"CreateCategoryHandler", "CreateProductHandler", "GetCategoryHandler",
     "ListCategoryHandler"}

\* C6: a POST /v1/api/products that decodes and validates, with a category_id
\* that no stored category has (and no database fault, and a response that
\* can be written): Insert returns an error matching ErrInvalidCategoryId, no
\* product is stored, the status is 400 and the body is exactly
\* {"error": "invalid category_id"}.
C6_Counterexample ==
    (/\ http.served
     /\ http.handler = "CreateProductHandler"
     /\ http.called = "Insert"
     /\ http.request.body.value.category_id \notin DOMAIN categories
     /\ http.cause # dbFault
     /\ http.response.failed = "none") =>
        /\ errorsIs(ret["c1"], ErrInvalidCategoryId)
        /\ rec["c1"].ID = 0
        /\ \A p \in DOMAIN products :
              products[p].category_id # http.request.body.value.category_id
        /\ ClientStatus(http.response) = StatusBadRequest
        /\ http.response.body = <<[error |-> "invalid category_id"]>>

\* C7: when the repository call of a handler returned an error (and the
\* response can be written): ErrRecordNotFound gives 404 with the fixed
\* not-found message, an error that is no classified sentinel gives 500 with
\* the fixed server-error message, the body does not carry the text of the
\* repository error, and the log does.
C7_Counterexample ==
    (/\ http.served
     /\ http.handler \in Handlers
     /\ http.called # "none"
     /\ http.cause # NoError
     /\ http.response.failed = "none") =>
        /\ errorsIs(http.cause, ErrRecordNotFound) =>
              /\ ClientStatus(http.response) = StatusNotFound
              /\ http.response.body =
                     <<[error |-> "the requested resource could not be found"]>>
        /\ (~errorsIs(http.cause, ErrRecordNotFound)
              /\ ~errorsIs(http.cause, ErrInvalidCategoryId)) =>
              /\ ClientStatus(http.response) = StatusInternalServerError
              /\ http.response.body =
                     <<[error |-> "the server encountered a problem and could not process your request"]>>
        /\ http.response.body[1].error # http.cause.text
        /\ \E i \in 1 .. Len(http.response.log) : http.response.log[i].msg = http.cause.text

\* C8: when writeJSON could not deliver the response (the payload does not
\* marshal, or the write fails), the failure is logged, and the client
\* receives status 500 and an empty body.
C8_Counterexample ==
    (http.served /\ http.response.failed # "none") =>
        /\ \E i \in 1 .. Len(http.response.log) :
              http.response.log[i].msg \in {jsonMarshalError.text, writeError.text}
        /\ ClientStatus(http.response) = StatusInternalServerError
        /\ http.response.body = <<>>

\* C9: when a handler has answered with status 400, 404, 422 or 500, a log
\* entry with the message of the error, the request method and the request
\* URI was emitted before the status header and the body were written.
C9_LogBeforeErrorResponse ==
    (/\ http.served
     /\ http.handler \in Handlers
     /\ ClientStatus(http.response) \in ErrorStatuses) =>
        LET events == http.response.events
        IN  /\ \A i \in 1 .. Len(events) :
                  events[i] \in {"WriteHeader", "Write"} =>
                      \E j \in 1 .. i - 1 : events[j] = "log"
            /\ Len(http.response.log) >= 1
            /\ http.response.log[1] =
                   [msg |-> http.cause.text, method |-> http.request.method,
                    uri |-> http.request.uri]

\* C9 witness: a handler whose repository call failed in the database answered
\* 500 after logging the error of the database
C9_Witness ==
    /\ http.served
    /\ http.handler \in Handlers
    /\ http.called # "none"
    /\ http.cause = dbFault
    /\ ClientStatus(http.response) = StatusInternalServerError
    /\ http.response.events = <<"log", "WriteHeader", "Write">>
    /\ http.response.log[1].msg = dbFault.text

\* the parameters of a query string whose value is malformed
MalformedParams(qs) ==
    {k \in {"page", "page_size"} : qs[k] # "" /\ ~IsInt(qs[k])}
    \cup {k \in {"date_from", "date_to"} : qs[k] # "" /\ qs[k] \notin DOMAIN RFC3339}
    \cup (IF \E i \in 1 .. Len(qs["id"]) : ~IsInt(qs["id"][i]) THEN {"id"} ELSE {})

\* C10: when ListCategoryHandler was given malformed values for one or several
\* of id, date_from, date_to, page and page_size, it answered with one 400
\* response whose error object has exactly one message per malformed
\* parameter, keyed by the parameter name, and did not call the repository.
C10_OneMessagePerMalformedParam ==
    (/\ http.served
     /\ http.handler = "ListCategoryHandler"
     /\ MalformedParams(http.request.query) # {}) =>
        /\ http.called = "none"
        /\ ClientStatus(http.response) = StatusBadRequest
        /\ Cardinality({i \in 1 .. Len(http.response.events) :
                           http.response.events[i] = "WriteHeader"}) = 1
        /\ http.response.failed = "none" =>
              /\ Len(http.response.body) = 1
              /\ DOMAIN http.response.body[1] = {"error"}
              /\ DOMAIN http.response.body[1].error = MalformedParams(http.request.query)
              /\ \A k \in MalformedParams(http.request.query) :
                    http.response.body[1].error[k] # ""

\* C10 witness: all five parameters were malformed and the 400 response names
\* all five
C10_Witness ==
    /\ http.served
    /\ http.handler = "ListCategoryHandler"
    /\ MalformedParams(http.request.query) = ParseParams
    /\ ClientStatus(http.response) = StatusBadRequest
    /\ http.response.failed = "none"
    /\ DOMAIN http.response.body[1].error = ParseParams

\* ------------------------------------------------ optimistic concurrency
\* an error that is neither success nor the version check's answer: the
\* statement failed in the database (fault, or the row it would write violates
\* the foreign key)
OtherError(e) == e \notin {NoError, ErrEditConflict}

\* the stored row id of table t, scanned into the struct of that table
Scan(t, id) == IF t = "categories" THEN ScanCategory(id) ELSE ScanProduct(id)

\* callers c and d have both returned from Updates that were in flight
\* together with the same (id, v) while the row was stored at version v
RaceOver(c, d) ==
    /\ c # d
    /\ racing[c] /\ racing[d]
    /\ pc[c] = "idle" /\ pc[d] = "idle"

\* C1: of two concurrent Updates on one repository with the same id and the
\* same version v, the row stored at v, and neither statement failing in the
\* database: exactly one returns nil, the other returns ErrEditConflict, the
\* stored version is v+1 and the stored row is the one the successful call wrote.
C1_ExactlyOneUpdateWins ==
    \A c, d \in Callers :
        (RaceOver(c, d) /\ ~OtherError(ret[c]) /\ ~OtherError(ret[d])) =>
            \E w \in {c, d} :
                LET l == IF w = c THEN d ELSE c
                    t == TableOf(rec[w])
                    id == rec[w].ID
                IN  /\ ret[w] = NoError
                    /\ ret[l] = ErrEditConflict
                    /\ id \in DOMAIN Table(t)
                    /\ Table(t)[id].version = rec[l].Version + 1
                    /\ rec[w] = Scan(t, id)

\* C1 witness: a race on a category is over, the two calls carried different
\* names, one returned nil and the other ErrEditConflict
C1_Witness ==
    \E c, d \in Callers :
        /\ RaceOver(c, d)
        /\ TableOf(rec[c]) = "categories"
        /\ rec[c].Name # rec[d].Name
        /\ ret[c] = NoError
        /\ ret[d] = ErrEditConflict

\* C2: an Update step changes the stored row only if a row with record.ID is
\* stored at record.Version, and does change it then unless it returns an
\* error other than ErrEditConflict; on success the stored version and
\* record.Version are the old version + 1 and no other row changes; on
\* ErrEditConflict or any other error the store and the record are unchanged.
C2_UpdateStep(c, r, tbl, tblNext) ==
    LET matched == r.ID \in DOMAIN tbl /\ tbl[r.ID].version = r.Version
        changed == tblNext # tbl
    IN  /\ changed => matched
        /\ (matched /\ ~OtherError(ret'[c])) => changed
        /\ changed <=> ret'[c] = NoError
        /\ ret'[c] = NoError =>
              /\ tblNext[r.ID].version = tbl[r.ID].version + 1
              /\ rec'[c] = [r EXCEPT !.Version = tbl[r.ID].version + 1]
              /\ DOMAIN tblNext = DOMAIN tbl
              /\ \A i \in DOMAIN tbl \ {r.ID} : tblNext[i] = tbl[i]
        /\ ret'[c] # NoError =>
              /\ UNCHANGED storeVars
              /\ rec'[c] = r
        /\ ~matched => ret'[c] \in {ErrEditConflict, dbFault}

C2_UpdateAppliesIffVersionMatches ==
    [][/\ \A c \in Callers, r \in CategoryStructs, f \in BOOLEAN :
              UpdateCategory(c, r, f) => C2_UpdateStep(c, r, categories, categories')
       /\ \A c \in Callers, r \in ProductStructs, f \in BOOLEAN :
              UpdateProduct(c, r, f) => C2_UpdateStep(c, r, products, products')]_vars

\* C2 witness: the last call was an Update that found the row at another
\* version and returned ErrEditConflict
C2_Witness ==
    /\ ret["c1"] = ErrEditConflict
    /\ rec["c1"].ID \in DOMAIN categories
    /\ TableOf(rec["c1"]) = "categories"
    /\ categories[rec["c1"].ID].version # rec["c1"].Version

\* C3: an Update by a caller whose (id, v) was read before another caller's
\* successful Update of that id returns ErrEditConflict (unless the database
\* fails) and changes nothing, however often it is tried; an Update with the
\* (id, v) of a GetByID that no write has followed succeeds (unless the
\* database fails or rejects the new row).
C3_UpdateReturns(c) ==
    LET t == TableOf(rec[c])
        id == rec[c].ID
    IN  /\ hold[c] = "stale" =>
              /\ ret'[c] \in {ErrEditConflict, dbFault}
              /\ UNCHANGED storeVars
              /\ rec'[c] = rec[c]
              /\ hold'[c] = "stale"
        /\ hold[c] = "fresh" =>
              /\ ret'[c] # ErrEditConflict
              /\ ~OtherError(ret'[c]) =>
                    /\ ret'[c] = NoError
                    /\ id \in DOMAIN Table(t)'
                    /\ Table(t)'[id].version = rec[c].Version + 1

C4_VersionCountsUpdates ==
    \A t \in Tables : \A id \in DOMAIN Table(t) :
        /\ Table(t)[id].version >= 1
        /\ id \in DOMAIN nUpdates[t]
        /\ Table(t)[id].version = 1 + nUpdates[t][id]
        /\ id \notin deleted[t]

\* C4 witness: one category has been updated, another has been deleted
C4_Witness ==
    /\ \E id \in DOMAIN categories : categories[id].version = 2 /\ nUpdates["categories"][id] = 1
    /\ deleted["categories"] # {}

\* ------------------------------------------------------ request validation
\* the query parameters of a list request that parse and whose value fails a
\* validation rule of Filters
InvalidListParams(qs) ==
    {k \in {"page", "page_size"} : IsInt(qs[k]) /\ Atoi(qs[k]) < 1}
    \cup (IF IsInt(qs["page"]) /\ Atoi(qs["page"]) > 100000000 THEN {"page"} ELSE {})
    \cup (IF IsInt(qs["page_size"]) /\ Atoi(qs["page_size"]) > 100
          THEN {"page_size"} ELSE {})
    \cup (IF Len(qs["name"]) > 100 THEN {"name"} ELSE {})
    \cup (IF \/ Len(qs["sort"]) > 4
             \/ \E i \in 1 .. Len(qs["sort"]) : qs["sort"][i] \notin SortSafelist
          THEN {"sort"} ELSE {})

\* C11: ListCategoryHandler calls Category.GetAll exactly when every query
\* parameter parsed and the Filters passed validation; a malformed parameter
\* gives 400 whose error object lists the malformed parameters only, also
\* when another value would fail validation; a validation failure without a
\* malformed parameter gives 422.
C11_ParseThenValidate ==
    (http.served /\ http.handler = "ListCategoryHandler") =>
        LET M == MalformedParams(http.request.query)
            V == InvalidListParams(http.request.query)
        IN  /\ http.called = "GetAll" <=> (M = {} /\ V = {})
            /\ M # {} =>
                  /\ ClientStatus(http.response) = StatusBadRequest
                  /\ http.response.failed = "none" =>
                        DOMAIN http.response.body[1].error = M
            /\ (M = {} /\ V # {}) =>
                  ClientStatus(http.response) = StatusUnprocessableEntity
            /\ (M = {} /\ V = {}) =>
                  ClientStatus(http.response) \in {StatusOK, StatusInternalServerError}

\* C11 witness: a request with a malformed page and an unknown sort key was
\* answered 400 naming the page only
C11_Witness ==
    /\ http.served
    /\ http.handler = "ListCategoryHandler"
    /\ MalformedParams(http.request.query) = {"page"}
    /\ "sort" \in InvalidListParams(http.request.query)
    /\ ClientStatus(http.response) = StatusBadRequest
    /\ http.response.failed = "none"
    /\ DOMAIN http.response.body[1].error = {"page"}

\* the fields of a decoded body that fail a rule of the DTO, by JSON name
InvalidNameField(v) ==
    IF v.name = "" \/ Len(v.name) < 3 \/ Len(v.name) > 100 THEN {"name"} ELSE {}
InvalidCategoryFields(v) == InvalidNameField(v)
InvalidProductFields(v) ==
    InvalidNameField(v)
    \cup (IF v.category_id = 0 THEN {"category_id"} ELSE {})
    \cup (IF v.price < 0 THEN {"price"} ELSE {})
    \cup (IF v.quantity < 0 THEN {"quantity"} ELSE {})

\* the fields of the served request that fail validation, by external name
\* (empty when the request does not decode or parse)
InvalidFields ==
    CASE http.handler = "CreateCategoryHandler" ->
            IF readJSON(http.request.body).err = NoError
            THEN InvalidCategoryFields(http.request.body.value) ELSE {}
      [] http.handler = "CreateProductHandler" ->
            IF readJSON(http.request.body).err = NoError
            THEN InvalidProductFields(http.request.body.value) ELSE {}
      [] http.handler = "ListCategoryHandler" ->
            IF MalformedParams(http.request.query) = {}
            THEN InvalidListParams(http.request.query) ELSE {}
      [] OTHER -> {}

\* C12: when a decoded request fails validation on one or several fields, the
\* response is 422, its error object has an entry for every failing field
\* keyed by the field's external name, and the repository is not called.
C12_Counterexample ==
    (http.served /\ http.handler \in Handlers /\ InvalidFields # {}) =>
        /\ ClientStatus(http.response) = StatusUnprocessableEntity
        /\ http.called = "none"
        /\ http.response.failed = "none" =>
              DOMAIN http.response.body[1].error = InvalidFields

\* C13: readInt on the page and page_size of a served list request: a value
\* that is not empty and not an integer records 'must be an integer value:
\* <raw>' under the key and gives the default; an empty value gives the
\* default and records nothing; an integer gives that integer and records
\* nothing.
C13_Counterexample ==
    (http.served /\ http.handler = "ListCategoryHandler") =>
        \A key \in {"page", "page_size"} :
            LET raw == http.request.query[key]
                read == readInt(http.request.query, key, 20, <<>>)
            IN  /\ raw = "" => (read.value = 20 /\ DOMAIN read.valErrs = {})
                /\ IsInt(raw) => (read.value = Atoi(raw) /\ DOMAIN read.valErrs = {})
                /\ (raw # "" /\ ~IsInt(raw)) =>
                      /\ read.value = 20
                      /\ DOMAIN read.valErrs = {key}
                      /\ read.valErrs[key] = "must be an integer value: " \o raw

\* ------------------------------------------------------- request decoding
CreateHandlers == {"CreateCategoryHandler", "CreateProductHandler"}

\* C14: for a create request whose body is longer than 1,048,576 bytes,
\* whatever the body contains, readJSON returns 'body must not be larger than
\* 1048576 bytes', the response is 400 and the repository is not called.
C14_Counterexample ==
    (/\ http.served
     /\ http.handler \in CreateHandlers
     /\ http.request.body.length > 1048576) =>
        /\ readJSON(http.request.body).err.text = "body must not be larger than 1048576 bytes"
        /\ http.cause.text = "body must not be larger than 1048576 bytes"
        /\ ClientStatus(http.response) = StatusBadRequest
        /\ http.called = "none"

\* the body is one well-formed JSON object, all of its keys are fields of the
\* DTO, all of its values have the field's type, and nothing but white space
\* follows it
OneObjectOfTheDTO(body) ==
    /\ body.json = "object"
    /\ body.faults = <<>>
    /\ body.rest # "value"
    /\ body.length <= 1048576

\* C15: the create handlers call Insert only for a body that is one
\* well-formed JSON object of the DTO; for an empty body, malformed JSON, a
\* value of the wrong type, an unknown key or content after the first value
\* they answer 400 with {"error": <message>} and do not call Insert.
C15_InsertOnlyForOneObject ==
    (http.served /\ http.handler \in CreateHandlers) =>
        /\ http.called = "Insert" => OneObjectOfTheDTO(http.request.body)
        /\ ~OneObjectOfTheDTO(http.request.body) =>
              /\ http.called = "none"
              /\ ClientStatus(http.response) = StatusBadRequest
              /\ http.cause.text # ""
              /\ http.response.failed = "none" =>
                    http.response.body = <<[error |-> http.cause.text]>>

\* C15 witness: a body with a second JSON value after the object was answered
\* 400 without a call of Insert
C15_Witness ==
    /\ http.served
    /\ http.handler \in CreateHandlers
    /\ http.request.body.json = "object"
    /\ http.request.body.rest = "value"
    /\ http.called = "none"
    /\ ClientStatus(http.response) = StatusBadRequest
    /\ http.response.body = <<[error |-> "body must only contain a single JSON value"]>>

\* C16: GetCategoryHandler, for an id path parameter that is not a base-10
\* integer or is an integer below 1, answers 400 with the body
\* {"error": "invalid id parameter: <raw>"}, <raw> being the parameter as
\* received, and does not call Category.GetByID.
C16_Counterexample ==
    (/\ http.served
     /\ http.handler = "GetCategoryHandler"
     /\ (~IsInt(http.request.id) \/ Atoi(http.request.id) < 1)) =>
        /\ http.called = "none"
        /\ ClientStatus(http.response) = StatusBadRequest
        /\ http.response.failed = "none" =>
              http.response.body =
                  <<[error |-> "invalid id parameter: " \o http.request.id]>>

\* the keys of the body that name a column the store assigns
StoreAssigned == {"id", "version", "created_at"}
SuppliesStoreAssigned(body) ==
    /\ body.json = "object"
    /\ \E i \in 1 .. Len(body.faults) :
          body.faults[i].kind = "unknown" /\ body.faults[i].field \in StoreAssigned

\* C17: the record of an accepted create request carries the id the sequence
\* of its table handed out last, the default version and the created_at of the
\* stored row, and the request body set none of them; a body with an id,
\* version or created_at key is answered 400 as an unknown field and Insert is
\* not called.
C17_StoreAssignsIdVersionCreatedAt ==
    (http.served /\ http.handler \in CreateHandlers) =>
        LET t == IF http.handler = "CreateCategoryHandler" THEN "categories" ELSE "products"
            seq == IF t = "categories" THEN catSeq ELSE prodSeq
            r == rec["c1"]
        IN  /\ (http.called = "Insert" /\ http.cause = NoError) =>
                  /\ ~SuppliesStoreAssigned(http.request.body)
                  /\ r.ID = seq
                  /\ r.ID \in DOMAIN Table(t)
                  /\ r.Version = DefaultVersion
                  /\ r.Version = Table(t)[r.ID].version
                  /\ r.CreatedAt = Table(t)[r.ID].created_at
                  /\ ClientStatus(http.response) = StatusCreated
                  /\ http.response.failed = "none" =>
                        \E key \in {"category", "product"} :
                            http.response.body = <<[k \in {key} |-> r]>>
            /\ (SuppliesStoreAssigned(http.request.body) /\ http.request.body.stop <= 1048576) =>
                  /\ http.called = "none"
                  /\ ClientStatus(http.response) = StatusBadRequest
                  /\ http.cause.text =
                         "json: unknown field \"" \o http.request.body.faults[1].field \o "\""

\* C17 witness: a category body with an id key was answered 400 with nothing
\* stored by it, after another create request had been accepted
C17_Witness ==
    /\ http.served
    /\ http.handler = "CreateCategoryHandler"
    /\ SuppliesStoreAssigned(http.request.body)
    /\ http.request.body.faults[1].field = "id"
    /\ ClientStatus(http.response) = StatusBadRequest
    /\ http.response.body = <<[error |-> "json: unknown field \"id\""]>>
    /\ catSeq = 1

\* ------------------------------------------------- Insert, GetByID, Delete
\* caller c holds in rec[c] the record of table t that its last call, an
\* Insert of id or a GetByID of id, returned, and the row has not been written
\* since its Insert
HoldsSinceInsert(c, t, id) ==
    /\ ret[c] = NoError
    /\ TableOf(rec[c]) = t
    /\ rec[c].ID = id
    /\ id \in DOMAIN Table(t)
    /\ nUpdates[t][id] = 0

\* a successful Insert returns the record of the row it stored
C18_InsertStep(c, t, payload) ==
    ret'[c] = NoError =>
        LET r == rec'[c]
        IN  /\ r.ID \in DOMAIN Table(t)' \ DOMAIN Table(t)
            /\ DOMAIN Table(t)'[r.ID] =
                   IF t = "categories" THEN CategoryColumns ELSE ProductColumns
            /\ Table(t)'[r.ID].version = r.Version
            /\ Table(t)'[r.ID].created_at = r.CreatedAt
            /\ \A k \in DOMAIN payload : r[k] = payload[k]
            /\ Table(t)'[r.ID].name = r.Name
            /\ Table(t)'[r.ID].description = r.Description
            /\ t = "products" =>
                  /\ Table(t)'[r.ID].category_id = r.CategoryID
                  /\ Table(t)'[r.ID].price = r.Price
                  /\ Table(t)'[r.ID].quantity = r.Quantity

\* a GetByID of the id the caller holds since its Insert returns the record
\* the caller holds, and a GetByID changes nothing in the store
C18_GetByIDStep(c, t, id, fault) ==
    /\ UNCHANGED storeVars
    /\ HoldsSinceInsert(c, t, id) =>
          /\ ~fault => ret'[c] = NoError
          /\ ret'[c] = NoError => rec'[c] = rec[c]

\* C18: after a successful Insert, GetByID of the new id with no write to it
\* in between returns a record equal to the inserted one in id, created_at,
\* version and every payload field; repeating GetByID returns the same record
\* and changes nothing in the store.
C18_InsertThenGetByID ==
    [][/\ \A c \in Callers, n \in CategoryNames, d \in Descs, t \in Times, f \in BOOLEAN :
              InsertCategory(c, n, d, t, f) =>
                  C18_InsertStep(c, "categories", [Name |-> n, Description |-> d])
       /\ \A c \in Callers, n \in ProductNames, k \in CategoryIds, d \in Descs,
             p \in Prices, q \in Quantities, t \in Times, f \in BOOLEAN :
              InsertProduct(c, n, k, d, p, q, t, f) =>
                  C18_InsertStep(c, "products",
                                 [Name |-> n, CategoryID |-> k, Description |-> d,
                                  Price |-> p, Quantity |-> q])
       /\ \A c \in Callers, id \in CategoryIds, f \in BOOLEAN :
              GetCategory(c, id, f) => C18_GetByIDStep(c, "categories", id, f)
       /\ \A c \in Callers, id \in ProductIds, f \in BOOLEAN :
              GetProduct(c, id, f) => C18_GetByIDStep(c, "products", id, f)]_vars

\* C18 witness: the caller holds the record of a category that was inserted
\* and not written since, equal to the stored row, while an older category
\* is stored as well
C18_Witness ==
    /\ HoldsSinceInsert("c1", "categories", rec["c1"].ID)
    /\ rec["c1"].ID = 2
    /\ 1 \in DOMAIN categories
    /\ rec["c1"].Name = categories[2].name
    /\ rec["c1"].Description = categories[2].description
    /\ rec["c1"].Description # ""
    /\ rec["c1"].CreatedAt = categories[2].created_at
    /\ rec["c1"].Version = 1

\* Delete(id) on table t, the statement not failing in the database (no
\* fault, and no product referencing the category)
C19_DeleteStep(c, t, id, fault) ==
    LET tbl == Table(t)
        tblNext == Table(t)'
        rejected == t = "categories" /\ id \in DOMAIN tbl /\ Referencing(id) # {}
    IN  /\ (id \in DOMAIN tbl /\ ~fault /\ ~rejected) =>
              /\ ret'[c] = NoError
              /\ DOMAIN tblNext = DOMAIN tbl \ {id}
              /\ \A i \in DOMAIN tblNext : tblNext[i] = tbl[i]
              /\ \A u \in Tables \ {t} : Table(u)' = Table(u)
              /\ id \in deleted'[t]
        /\ id \notin DOMAIN tbl =>
              /\ ~fault => ret'[c] = ErrRecordNotFound
              /\ UNCHANGED storeVars
        /\ ret'[c] # NoError => UNCHANGED storeVars

\* GetByID of an id that Delete removed
C19_GetByIDStep(c, t, id, fault) ==
    (id \in deleted[t] /\ ~fault) => ret'[c] = ErrRecordNotFound

\* C19: Delete of a stored id removes exactly that row and returns nil (unless
\* the statement fails in the database); afterwards GetByID of the id and a
\* second Delete of it return ErrRecordNotFound; Delete of an id that is not
\* stored returns ErrRecordNotFound and changes no row.
C19_DeleteRemovesExactlyOneRow ==
    [][/\ \A c \in Callers, id \in CategoryIds, f \in BOOLEAN :
              /\ DeleteCategory(c, id, f) => C19_DeleteStep(c, "categories", id, f)
              /\ GetCategory(c, id, f) => C19_GetByIDStep(c, "categories", id, f)
       /\ \A c \in Callers, id \in ProductIds, f \in BOOLEAN :
              /\ DeleteProduct(c, id, f) => C19_DeleteStep(c, "products", id, f)
              /\ GetProduct(c, id, f) => C19_GetByIDStep(c, "products", id, f)]_vars

\* C19 witness: one of two categories was deleted, the other is stored, and
\* the last call on the deleted id returned ErrRecordNotFound
C19_Witness ==
    /\ \E id \in deleted["categories"] : id \notin DOMAIN categories
    /\ DOMAIN categories # {}
    /\ ret["c1"] = ErrRecordNotFound
    /\ rec["c1"] = ZeroCategory

\* ---------------------------------------------------------------- contexts
\* the context a repository method is called with: live, cancelled before the
\* call, or past its deadline before the call
Contexts == {"live", "canceled", "expired"}
contextCanceled == [text |-> "context canceled", is |-> "context.Canceled", code |-> ""]
contextDeadlineExceeded ==
    [text |-> "context deadline exceeded", is |-> "context.DeadlineExceeded", code |-> ""]

\* ctx.Err()
ctxErr(ctx) ==
    CASE ctx = "live" -> NoError
      [] ctx = "canceled" -> contextCanceled
      [] ctx = "expired" -> contextDeadlineExceeded

\* ProductModel.Insert: errors.As(err, &pqErr) && pqErr.Code == ErrForeignKeyViolation
ProductInsertError(err, categoryID) ==
    IF err.is = "pq.Error" /\ err.code = ErrForeignKeyViolation
    THEN WrapInvalidCategoryId(categoryID) ELSE err

\* QueryRowContext, QueryContext and ExecContext with a context that is done
\* return ctx.Err() and send no statement; the method returns what it makes
\* of that error, with the record the caller passed as it was
Aborted(c, record, err) ==
    /\ ret' = [ret EXCEPT ![c] = err]
    /\ rec' = [rec EXCEPT ![c] = record]
    /\ Sequential(c)
    /\ UNCHANGED <<storeVars, nUpdates, deleted>>

AbortedGetAll(t, filters, err) ==
    /\ pc["c1"] = "idle"
    /\ ret' = [ret EXCEPT !["c1"] = err]
    /\ rec' = [rec EXCEPT !["c1"] = IF t = "categories" THEN ZeroCategory ELSE ZeroProduct]
    /\ list' = Listed(t, filters, [records |-> <<>>, metadata |-> ZeroMetadata, err |-> err])
    /\ UNCHANGED <<storeVars, pc, histVars, http, server>>

InsertCategoryContext(c, ctx, name, description, now) ==
    IF ctx = "live" THEN InsertCategory(c, name, description, now, FALSE)
    ELSE Aborted(c, [ZeroCategory EXCEPT !.Name = name, !.Description = description],
                 ctxErr(ctx))
GetCategoryContext(c, ctx, id) ==
    IF ctx = "live" THEN GetCategory(c, id, FALSE)
    ELSE Aborted(c, ZeroCategory, GetByIDError(ctxErr(ctx)))
UpdateCategoryContext(c, ctx, category) ==
    IF ctx = "live" THEN UpdateCategory(c, category, FALSE)
    ELSE Aborted(c, category, UpdateError(ctxErr(ctx)))
DeleteCategoryContext(c, ctx, id) ==
    IF ctx = "live" THEN DeleteCategory(c, id, FALSE)
    ELSE Aborted(c, ZeroCategory, ctxErr(ctx))
GetAllCategoriesContext(ctx, filters) ==
    IF ctx = "live" THEN GetAllCategories(filters, FALSE)
    ELSE AbortedGetAll("categories", filters, ctxErr(ctx))

InsertProductContext(c, ctx, name, categoryID, description, price, quantity, now) ==
    IF ctx = "live"
    THEN InsertProduct(c, name, categoryID, description, price, quantity, now, FALSE)
    ELSE Aborted(c, [ZeroProduct EXCEPT !.Name = name, !.CategoryID = categoryID,
                                        !.Description = description,
                                        !.Price = price, !.Quantity = quantity],
                 ProductInsertError(ctxErr(ctx), categoryID))
GetProductContext(c, ctx, id) ==
    IF ctx = "live" THEN GetProduct(c, id, FALSE)
    ELSE Aborted(c, ZeroProduct, GetByIDError(ctxErr(ctx)))
UpdateProductContext(c, ctx, product) ==
    IF ctx = "live" THEN UpdateProduct(c, product, FALSE)
    ELSE Aborted(c, product, UpdateError(ctxErr(ctx)))
DeleteProductContext(c, ctx, id) ==
    IF ctx = "live" THEN DeleteProduct(c, id, FALSE)
    ELSE Aborted(c, ZeroProduct, ctxErr(ctx))
GetAllProductsContext(ctx, filters) ==
    IF ctx = "live" THEN GetAllProducts(filters, "postgres")
    ELSE AbortedGetAll("products", filters, ctxErr(ctx))

\* the filters of the GetAll calls made with a context: the first page of
\* two records in the default order, of all rows
ContextFilters(ids) ==
    {f \in ListFilters(ids) : /\ f.Page = 1 /\ f.PageSize = 2 /\ f.Sorts = <<>>
                              /\ f.IDs = <<>> /\ f.DateFrom = NilTime /\ f.DateTo = NilTime
                              /\ f.Name = ""}
CategoryContextFilters == ContextFilters(CategoryIds)
ProductContextFilters == ContextFilters(ProductIds)

\* the records of the calls made with a context: categories are inserted
\* under one name and updated to the other
ContextInsertNames == {"a"}
ContextCategoryStructs == {r \in CategoryStructs : r.Name = "b"}

\* SpecContext: one goroutine calls the repositories, each call with a
\* context that is live or already done
NextContext ==
    \/ \E ctx \in Contexts, n \in ContextInsertNames, d \in Descs, t \in Times :
          InsertCategoryContext("c1", ctx, n, d, t)
    \/ \E ctx \in Contexts, id \in CategoryIds : GetCategoryContext("c1", ctx, id)
    \/ \E ctx \in Contexts, r \in ContextCategoryStructs : UpdateCategoryContext("c1", ctx, r)
    \/ \E ctx \in Contexts, id \in CategoryIds : DeleteCategoryContext("c1", ctx, id)
    \/ \E ctx \in Contexts, f \in CategoryContextFilters :
          GetAllCategoriesContext(ctx, f)
    \/ \E ctx \in Contexts, n \in ProductNames, k \in CategoryIds, d \in Descs,
          p \in Prices, q \in Quantities, t \in Times :
          InsertProductContext("c1", ctx, n, k, d, p, q, t)
    \/ \E ctx \in Contexts, id \in ProductIds : GetProductContext("c1", ctx, id)
    \/ \E ctx \in Contexts, r \in ProductStructs : UpdateProductContext("c1", ctx, r)
    \/ \E ctx \in Contexts, id \in ProductIds : DeleteProductContext("c1", ctx, id)
    \/ \E ctx \in Contexts, f \in ProductContextFilters :
          GetAllProductsContext(ctx, f)

SpecContext == Init /\ [][NextContext]_vars

\* the contexts that are done, and the message of their error
DoneContexts == {"canceled", "expired"}
DoneMessage(ctx) ==
    IF ctx = "canceled" THEN "context canceled" ELSE "context deadline exceeded"

\* the call returned the error of the context and changed no row; record is
\* the caller's record as it was passed
C20_AbortedStep(c, ctx, record) ==
    /\ ret'[c].text = DoneMessage(ctx)
    /\ ret'[c] \notin {NoError, ErrRecordNotFound, ErrEditConflict}
    /\ UNCHANGED storeVars
    /\ rec'[c] = record

\* C20: Insert, GetByID, GetAll, Update and Delete of both repositories,
\* called with a context that is already cancelled or expired, return the
\* error of the context and leave the stored rows and the caller's record
\* unchanged.
C20_DoneContextAborts ==
    [][\A ctx \in DoneContexts :
        /\ \A n \in ContextInsertNames, d \in Descs, t \in Times :
              InsertCategoryContext("c1", ctx, n, d, t) =>
                  C20_AbortedStep("c1", ctx, [ZeroCategory EXCEPT !.Name = n,
                                                                 !.Description = d])
        /\ \A id \in CategoryIds :
              /\ GetCategoryContext("c1", ctx, id) => C20_AbortedStep("c1", ctx, ZeroCategory)
              /\ DeleteCategoryContext("c1", ctx, id) =>
                    C20_AbortedStep("c1", ctx, ZeroCategory)
        /\ \A r \in ContextCategoryStructs :
              UpdateCategoryContext("c1", ctx, r) => C20_AbortedStep("c1", ctx, r)
        /\ \A f \in CategoryContextFilters :
              GetAllCategoriesContext(ctx, f) =>
                  (C20_AbortedStep("c1", ctx, ZeroCategory) /\ list'.records = <<>>)
        /\ \A n \in ProductNames, k \in CategoryIds, d \in Descs, p \in Prices,
              q \in Quantities, t \in Times :
              InsertProductContext("c1", ctx, n, k, d, p, q, t) =>
                  C20_AbortedStep("c1", ctx,
                                  [ZeroProduct EXCEPT !.Name = n, !.CategoryID = k,
                                                      !.Description = d, !.Price = p,
                                                      !.Quantity = q])
        /\ \A id \in ProductIds :
              /\ GetProductContext("c1", ctx, id) => C20_AbortedStep("c1", ctx, ZeroProduct)
              /\ DeleteProductContext("c1", ctx, id) =>
                    C20_AbortedStep("c1", ctx, ZeroProduct)
        /\ \A r \in ProductStructs :
              UpdateProductContext("c1", ctx, r) => C20_AbortedStep("c1", ctx, r)
        /\ \A f \in ProductContextFilters :
              GetAllProductsContext(ctx, f) =>
                  (C20_AbortedStep("c1", ctx, ZeroProduct) /\ list'.records = <<>>)]_vars

\* C20 witness: an Update of a stored category at its stored version, with
\* another name, returned context canceled and the row is as it was
C20_Witness ==
    /\ ret["c1"] = contextCanceled
    /\ rec["c1"].ID \in DOMAIN categories
    /\ TableOf(rec["c1"]) = "categories"
    /\ rec["c1"].Version = categories[rec["c1"].ID].version
    /\ rec["c1"].Name # categories[rec["c1"].ID].name

\* ------------------------------------------------------- sorting and paging
\* the keys the validation of Filters.Sorts lets through
SortKeys == {"id", "-id", "name", "-name", "created_at", "-created_at"}
MaxSorts == 2
SortLists == UNION {[1 .. n -> SortKeys] : n \in 0 .. MaxSorts}

\* the filters of the GetAll calls that sort and page: every list of sort
\* keys on the first page of all rows, and every page of all rows and of the
\* rows of one name under the lists of PagedSorts
SortPages == {1, 2, 3}
SortPageSizes == {1, 2}
PagedSorts ==
    {s \in SortLists : Len(s) <= 1}
    \cup {<<"name", "-id">>, <<"created_at", "-name">>, <<"-created_at", "name">>}
PagedFilters ==
    [IDs : {<<>>}, Name : {"", "a"}, DateFrom : {NilTime}, DateTo : {NilTime},
     Sorts : PagedSorts, Page : SortPages, PageSize : SortPageSizes]
SortFilters ==
    PagedFilters
    \cup [IDs : {<<>>}, Name : {""}, DateFrom : {NilTime}, DateTo : {NilTime},
          Sorts : SortLists, Page : {1}, PageSize : {2}]

\* SpecSort: one goroutine inserts categories and lists them in every order
NextSort ==
    \/ \E n \in CategoryNames, d \in Descs, t \in Times : InsertCategory("c1", n, d, t, FALSE)
    \/ \E f \in SortFilters : GetAllCategories(f, FALSE)

SpecSort == Init /\ [][NextSort]_vars

\* the column and the direction a sort key asks for
ColumnOf(key) ==
    CASE key \in {"id", "-id"} -> "id"
      [] key \in {"name", "-name"} -> "name"
      [] key \in {"created_at", "-created_at"} -> "created_at"
DirectionOf(key) == IF key \in {"-id", "-name", "-created_at"} THEN "DESC" ELSE "ASC"

\* the pair of each key in request order joined by ", ", then "id ASC" if and
\* only if neither id nor -id is among the keys
RequestedOrder(sorts) ==
    LET pairs == Join([i \in 1 .. Len(sorts) |->
                          ColumnOf(sorts[i]) \o " " \o DirectionOf(sorts[i])], ", ")
    IN  IF \E i \in 1 .. Len(sorts) : sorts[i] \in {"id", "-id"} THEN pairs
        ELSE IF Len(sorts) = 0 THEN "id ASC"
        ELSE pairs \o ", id ASC"

\* C21: for any Sorts list of safelisted keys, Filters.sortColumns returns the
\* "<column> ASC|DESC" pair of each key in request order, joined by ", ",
\* followed by "id ASC" if and only if neither id nor -id is among the keys;
\* for an empty Sorts it returns exactly "id ASC".
C21_SortColumnsOfSafelistedKeys ==
    list.called =>
        /\ list.order = RequestedOrder(list.filters.Sorts)
        /\ (list.filters.Sorts = <<>> => list.order = "id ASC")

\* C21 witness: sortColumns ran on the keys -name, created_at and appended id ASC
C21_Witness ==
    /\ list.called
    /\ list.filters.Sorts = <<"-name", "created_at">>
    /\ list.order = "name DESC, created_at ASC, id ASC"

\* the value of a record in a column, and record a coming before record b in
\* the order the keys ask for, ascending id breaking ties
ValueOf(r, column) ==
    CASE column = "id" -> r.ID
      [] column = "name" -> NameRank(r.Name)
      [] column = "created_at" -> r.CreatedAt
RECURSIVE RequestedBefore(_, _, _)
RequestedBefore(a, b, sorts) ==
    IF Len(sorts) = 0 THEN a.ID < b.ID
    ELSE LET va == ValueOf(a, ColumnOf(sorts[1]))
             vb == ValueOf(b, ColumnOf(sorts[1]))
         IN  IF va = vb THEN RequestedBefore(a, b, Tail(sorts))
             ELSE IF DirectionOf(sorts[1]) = "ASC" THEN va < vb ELSE va > vb

\* the stored categories that the filters select, in the requested order
RECURSIVE InRequestedOrder(_, _)
InRequestedOrder(ids, sorts) ==
    IF ids = {} THEN <<>>
    ELSE LET first == CHOOSE a \in ids : \A b \in ids \ {a} :
                          RequestedBefore(ScanCategory(a), ScanCategory(b), sorts)
         IN  <<ScanCategory(first)>> \o InRequestedOrder(ids \ {first}, sorts)
MatchingInOrder(f) == InRequestedOrder(Selected("categories", f), f.Sorts)

\* the window of page_size records at offset (page - 1) * page_size
Window(rows, page, pageSize) ==
    [i \in 1 .. (IF Len(rows) - (page - 1) * pageSize < pageSize
                 THEN (IF Len(rows) > (page - 1) * pageSize
                       THEN Len(rows) - (page - 1) * pageSize ELSE 0)
                 ELSE pageSize) |-> rows[(page - 1) * pageSize + i]]

\* the pages 1 .. last_page that GetAll returns for the filters, last_page
\* being the one its Metadata reports, one after the other
RECURSIVE PagesFrom(_, _, _)
PagesFrom(f, p, last) ==
    IF p > last THEN <<>>
    ELSE CategoryModel_GetAll([f EXCEPT !.Page = p], FALSE).records
         \o PagesFrom(f, p + 1, last)
AllPages(f) ==
    PagesFrom(f, 1, CategoryModel_GetAll([f EXCEPT !.Page = 1], FALSE).metadata.LastPage)

\* C22: for a fixed store and fixed valid filters and sort keys, the pages
\* 1..last_page returned by GetAll each hold at most page_size records
\* starting at offset (page-1)*page_size of the sorted result, no record is on
\* two pages, and the pages one after the other are exactly the matching
\* records in the requested order with ascending id breaking ties.
C22_DeterministicPagination ==
    /\ (list.called /\ list.err = NoError /\ list.filters \in PagedFilters) =>
          /\ Len(list.records) <= list.filters.PageSize
          /\ list.records = Window(MatchingInOrder(list.filters), list.filters.Page,
                                   list.filters.PageSize)
    /\ \A f \in PagedFilters :
          LET all == AllPages(f)
          IN  /\ all = MatchingInOrder(f)
              /\ \A i, j \in 1 .. Len(all) : all[i].ID = all[j].ID => i = j

\* C22 witness: two categories of one name are stored and the second page of
\* one record, sorted by name, returned the one with the higher id
C22_Witness ==
    /\ list.called
    /\ list.filters.Sorts = <<"name">>
    /\ list.filters.Page = 2
    /\ list.filters.PageSize = 1
    /\ Len(list.records) = 1
    /\ list.records[1].ID = 2
    /\ 1 \in DOMAIN categories
    /\ categories[1].name = categories[2].name

\* ------------------------------------------------------------- restrictions
\* C23: GetAll of both repositories returns only records that satisfy every
\* restriction that is set, and applies each restriction if and only if its
\* own filter is set: here, a GetAll of products is not refused for a column
\* the table does not have, and the records of a call that succeeds are
\* among those the filters select.
C23_Counterexample ==
    (list.called /\ list.table = "products") =>
        /\ list.err # pqUndefinedColumn
        /\ list.err = NoError =>
              \A i \in 1 .. Len(list.records) :
                  list.records[i].ID \in Selected("products", list.filters)

\* GetAll of categories returns the records its filters select and no other
\* (the part of C23 that CategoryModel.GetAll meets)
CategoriesListedAreSelected ==
    (list.called /\ list.table = "categories" /\ list.err = NoError) =>
        \A i \in 1 .. Len(list.records) :
            list.records[i].ID \in Selected("categories", list.filters)

\* C24: ProductModel.GetAll succeeds for every valid page and page_size and
\* reports as total_records the number of rows that match the filters, the
\* same for every page and page_size (checked on the calls without
\* restriction, whose database has no fault).
C24_Counterexample ==
    (/\ list.called /\ list.table = "products" /\ list.err # dbFault
     /\ list.filters.IDs = <<>> /\ list.filters.Name = ""
     /\ list.filters.DateFrom = NilTime /\ list.filters.DateTo = NilTime) =>
        /\ list.err = NoError
        /\ list.metadata.TotalRecords = list.total

\* ------------------------------------------------------------------- Update
\* the structs a caller passes to Update: another description than the one
\* of Insert, and a CreatedAt that is the zero time or a reading of NOW()
UpdateDescs == {"e"}
UpdateTimes == {0} \cup Times
UpdateCategoryStructs ==
    [ID : CategoryIds, Name : CategoryNames, Description : UpdateDescs,
     Version : 0 .. MaxVersion - 1, CreatedAt : UpdateTimes]
UpdateProductStructs ==
    [ID : ProductIds, Name : ProductNames, CategoryID : CategoryIds,
     Description : UpdateDescs, Price : Prices, Quantity : Quantities,
     Version : 0 .. MaxVersion - 1, CreatedAt : UpdateTimes]

\* SpecUpdate: one goroutine inserts rows and updates them
NextUpdate ==
    \/ \E n \in CategoryNames, d \in Descs, t \in Times : InsertCategory("c1", n, d, t, FALSE)
    \/ \E r \in UpdateCategoryStructs : UpdateCategory("c1", r, FALSE)
    \/ \E n \in ProductNames, k \in CategoryIds, d \in Descs, p \in Prices,
          q \in Quantities, t \in Times : InsertProduct("c1", n, k, d, p, q, t, FALSE)
    \/ \E r \in UpdateProductStructs : UpdateProduct("c1", r, FALSE)

SpecUpdate == Init /\ [][NextUpdate]_vars

\* a successful Update of table t with record r: the row r.ID has the payload
\* of r and the next version, its created_at is as before, the ids stored are
\* as before, every other row and the other table are as before
C25_UpdateStep(c, r, t) ==
    ret'[c] = NoError =>
        LET tbl == Table(t)
            tblNext == Table(t)'
        IN  /\ DOMAIN tblNext = DOMAIN tbl
            /\ r.ID \in DOMAIN tbl
            /\ tblNext[r.ID].created_at = tbl[r.ID].created_at
            /\ tblNext[r.ID].created_at \in Times
            /\ tblNext[r.ID].version = tbl[r.ID].version + 1
            /\ tblNext[r.ID].name = r.Name
            /\ tblNext[r.ID].description = r.Description
            /\ t = "products" =>
                  /\ tblNext[r.ID].category_id = r.CategoryID
                  /\ tblNext[r.ID].price = r.Price
                  /\ tblNext[r.ID].quantity = r.Quantity
            /\ \A i \in DOMAIN tbl \ {r.ID} : tblNext[i] = tbl[i]
            /\ UNCHANGED <<catSeq, prodSeq>>
            /\ IF t = "categories" THEN UNCHANGED products ELSE UNCHANGED categories

\* C25: a successful Update changes only the payload fields and the version
\* of the row with record.ID: that row's id and created_at keep the values
\* assigned at Insert, and every other row of the store is unchanged.
C25_UpdateChangesOnlyPayloadAndVersion ==
    [][/\ \A r \in UpdateCategoryStructs :
              UpdateCategory("c1", r, FALSE) => C25_UpdateStep("c1", r, "categories")
       /\ \A r \in UpdateProductStructs :
              UpdateProduct("c1", r, FALSE) => C25_UpdateStep("c1", r, "products")]_vars

\* C25 witness: an Update with a zero CreatedAt in its record succeeded on
\* category 1, whose row has the new description and the created_at of its
\* Insert, while category 2 is stored and was never updated
C25_Witness ==
    /\ ret["c1"] = NoError
    /\ TableOf(rec["c1"]) = "categories"
    /\ rec["c1"].ID = 1
    /\ rec["c1"].CreatedAt = 0
    /\ rec["c1"].Version = 2
    /\ DOMAIN categories = {1, 2}
    /\ categories[1].description = "e"
    /\ categories[1].created_at = 1
    /\ categories[1].version = 2
    /\ categories[2].version = 1
    /\ categories[2].description = "d"

\* Update of table t with a record whose id has no stored row, the database
\* not failing: ErrEditConflict, and the store as before
C29_UpdateStep(c, r, t, fault) ==
    (r.ID \notin DOMAIN Table(t) /\ ~fault) =>
        /\ ret'[c] = ErrEditConflict
        /\ ret'[c] # ErrRecordNotFound
        /\ rec'[c] = r
        /\ UNCHANGED storeVars

\* C29: Update called for an id that has no stored row (never inserted, or
\* already deleted) returns ErrEditConflict, the same error as a version
\* mismatch, not ErrRecordNotFound, and stores nothing.
C29_UpdateOfAbsentIdIsEditConflict ==
    [][/\ \A c \in Callers, r \in CategoryStructs, f \in BOOLEAN :
              UpdateCategory(c, r, f) => C29_UpdateStep(c, r, "categories", f)
       /\ \A c \in Callers, r \in ProductStructs, f \in BOOLEAN :
              UpdateProduct(c, r, f) => C29_UpdateStep(c, r, "products", f)]_vars

\* C29 witness: an Update of a category that was deleted returned
\* ErrEditConflict
C29_Witness ==
    /\ ret["c1"] = ErrEditConflict
    /\ TableOf(rec["c1"]) = "categories"
    /\ rec["c1"].ID \in deleted["categories"]
    /\ rec["c1"].ID \notin DOMAIN categories

\* ---------------------------------------------------- referential integrity
\* every stored product's category_id is the id of a stored category
ReferentialIntegrity ==
    \A p \in DOMAIN products : products[p].category_id \in DOMAIN categories

\* a call that must fail: it returns an error and the rows are as before
C27_Refused(c) ==
    /\ ret'[c] # NoError
    /\ UNCHANGED <<categories, products>>

\* C27: every stored product's category_id is the id of a stored category in
\* every reachable state; Product Insert and Product Update that name a
\* non-existent category fail and store nothing, and Category Delete of a
\* category that a stored product references fails and removes nothing.
C27_ReferentialIntegrity ==
    [][/\ ReferentialIntegrity'
       /\ \A c \in Callers, n \in ProductNames, k \in CategoryIds, d \in Descs,
             p \in Prices, q \in Quantities, t \in Times, f \in BOOLEAN :
              (InsertProduct(c, n, k, d, p, q, t, f) /\ k \notin DOMAIN categories) =>
                  C27_Refused(c)
       /\ \A c \in Callers, r \in ProductStructs, f \in BOOLEAN :
              (UpdateProduct(c, r, f) /\ r.CategoryID \notin DOMAIN categories) =>
                  C27_Refused(c)
       /\ \A c \in Callers, id \in CategoryIds, f \in BOOLEAN :
              (DeleteCategory(c, id, f)
               /\ \E p \in DOMAIN products : products[p].category_id = id) =>
                  C27_Refused(c)]_vars

\* C27 witness: a Delete of a category was refused for the foreign key while
\* a product that references a stored category is stored
C27_Witness ==
    /\ ret["c1"] = pqForeignKeyError
    /\ rec["c1"] = ZeroCategory
    /\ \E p \in DOMAIN products : products[p].category_id \in DOMAIN categories

\* ------------------------------------------------- GetAll next to writers
\* SpecListConcurrent: goroutine c1 lists the products while goroutine c2
\* inserts and deletes.  ProductModel.GetAll sends two statements on the
\* pool, the page and then the count, with no transaction around them; each
\* executes at once, and the writes of c2 execute before, between or after.
ConcurrentFilters ==
    [IDs : {<<>>}, Name : {""}, DateFrom : {NilTime}, DateTo : {NilTime},
     Sorts : {<<>>}, Page : {1, 2}, PageSize : {1, 2}]

\* ProductModel.GetAll up to rows.Err(): the page is scanned into products
QueryProductsPage(filters) ==
    /\ pc["c1"] = "idle"
    /\ pc' = [pc EXCEPT !["c1"] = "ProductModel.GetAll"]
    /\ LET page == LimitOffset(OrderBy(products, WhereProducts(products, filters),
                                       sortColumnList(filters)),
                               filters.PageSize, offset(filters))
       IN  list' = [called |-> FALSE, table |-> "products", filters |-> filters,
                    records |-> [i \in 1 .. Len(page) |-> ScanProduct(page[i])]]
    /\ rec' = [rec EXCEPT !["c1"] = ZeroProduct]
    /\ ret' = [ret EXCEPT !["c1"] = NoError]
    /\ UNCHANGED <<storeVars, histVars, http, server>>

\* ProductModel.GetAll from countProducts to its return
CountAndReturn(db) ==
    /\ pc["c1"] = "ProductModel.GetAll"
    /\ pc' = [pc EXCEPT !["c1"] = "idle"]
    /\ LET count == countProducts(list.filters, db)
       IN  list' = Listed("products", list.filters,
                     IF count.err # NoError
                     THEN [records |-> <<>>, metadata |-> ZeroMetadata, err |-> count.err]
                     ELSE [records |-> list.records,
                           metadata |-> calculateMetadata(count.totalRecords,
                                                          list.filters.Page,
                                                          list.filters.PageSize),
                           err |-> NoError])
    /\ ret' = [ret EXCEPT !["c1"] = list'.err]
    /\ UNCHANGED <<storeVars, rec, histVars, http, server>>

\* the calls of the other goroutine
Writer(c) ==
    /\ c = "c2"
    /\ UNCHANGED <<pc, hold, racing, requestVars, server>>
WriterInsertsCategory(c, name, description, now) ==
    Writer(c) /\ CategoryModel_Insert(c, name, description, now, FALSE)
WriterInsertsProduct(c, name, categoryID, description, price, quantity, now) ==
    Writer(c) /\ ProductModel_Insert(c, name, categoryID, description, price, quantity,
                                     now, FALSE)
WriterDeletesProduct(c, id) ==
    Writer(c) /\ ProductModel_Delete(c, id, FALSE)

NextListConcurrent ==
    \/ \E f \in ConcurrentFilters : QueryProductsPage(f)
    \/ \E db \in {"postgres", "lenient"} : CountAndReturn(db)
    \/ \E n \in CategoryNames, d \in Descs, t \in Times :
          WriterInsertsCategory("c2", n, d, t)
    \/ \E n \in ProductNames, k \in CategoryIds, d \in Descs, p \in Prices,
          q \in Quantities, t \in Times : WriterInsertsProduct("c2", n, k, d, p, q, t)
    \/ \E id \in ProductIds : WriterDeletesProduct("c2", id)

SpecListConcurrent == Init /\ [][NextListConcurrent]_vars

HTTPServers == {"http.Server", "mock"}
Signals == {"interrupt", "terminated"}
ListenErrors == {"http.ErrServerClosed", "listen error"}
ShutdownErrors == {"nil", "shutdown error"}

\* the state of a call of Serve on an httpServer
ServeCalled(kind) == [NoServer EXCEPT !.called = TRUE, !.httpServer = kind, !.main = "go"]

MainAt(at) == server.called /\ server.main = at
BackgroundAt(at) == server.called /\ server.background = at
ServeStep == UNCHANGED <<storeVars, callerVars, histVars, requestVars>>

CallServe(kind) ==
    /\ ~server.called
    /\ server' = ServeCalled(kind)
    /\ ServeStep

\* go func() { ... }()
StartBackground ==
    /\ MainAt("go")
    /\ server' = [server EXCEPT !.main = "starting server", !.background = "Notify"]
    /\ ServeStep

\* svr.logger.Info("starting server", ...)
LogStarting ==
    /\ MainAt("starting server")
    /\ server' = [server EXCEPT !.main = "ListenAndServe",
                                !.log = Append(@, "starting server")]
    /\ ServeStep

\* err := svr.httpServer.ListenAndServe() of http.Server: it returns
\* ErrServerClosed once Shutdown has been called
ListenAndServeCloses ==
    /\ MainAt("ListenAndServe")
    /\ server.httpServer = "http.Server"
    /\ server.shuttingDown
    /\ server' = [server EXCEPT !.main = "errors.Is", !.listenErr = "http.ErrServerClosed"]
    /\ ServeStep

\* ListenAndServe of http.Server fails to listen or to accept
ListenAndServeFails ==
    /\ MainAt("ListenAndServe")
    /\ server.httpServer = "http.Server"
    /\ ~server.shuttingDown
    /\ server' = [server EXCEPT !.main = "errors.Is", !.listenErr = "listen error"]
    /\ ServeStep

\* ListenAndServe of the mock returns what the test prepared
MockListenAndServe(err) ==
    /\ MainAt("ListenAndServe")
    /\ server.httpServer = "mock"
    /\ server' = [server EXCEPT !.main = "errors.Is", !.listenErr = err]
    /\ ServeStep

\* if !errors.Is(err, http.ErrServerClosed) { return err }
ReturnListenError ==
    /\ MainAt("errors.Is")
    /\ server' = IF server.listenErr = "http.ErrServerClosed"
                 THEN [server EXCEPT !.main = "<-shutdownError"]
                 ELSE [server EXCEPT !.main = "returned", !.result = server.listenErr]
    /\ ServeStep

\* shutdownError <- err in the background goroutine meets err = <-shutdownError
\* in the main goroutine; if err != nil { return err }
SendShutdownError ==
    /\ MainAt("<-shutdownError")
    /\ BackgroundAt("shutdownError <-")
    /\ server' = IF server.shutdownErr = "nil"
                 THEN [server EXCEPT !.background = "done", !.main = "stopped server"]
                 ELSE [server EXCEPT !.background = "done", !.main = "returned",
                                     !.result = server.shutdownErr]
    /\ ServeStep

\* svr.logger.Info("stopped server", ...); return nil
LogStoppedAndReturn ==
    /\ MainAt("stopped server")
    /\ server' = [server EXCEPT !.main = "returned", !.result = "nil",
                                !.log = Append(@, "stopped server")]
    /\ ServeStep

\* quit := make(chan os.Signal, 1); signal.Notify(quit, SIGINT, SIGTERM)
Notify ==
    /\ BackgroundAt("Notify")
    /\ server' = [server EXCEPT !.background = "<-quit", !.notified = TRUE]
    /\ ServeStep

\* the process receives SIGINT or SIGTERM: before Notify the signal ends the
\* process; after it the runtime puts the signal into quit unless quit is full
Signal(sig) ==
    /\ server.called
    /\ server.main # "killed"
    /\ server' = IF ~server.notified
                 THEN [server EXCEPT !.main = "killed", !.background = "killed"]
                 ELSE IF Len(server.quit) < 1
                 THEN [server EXCEPT !.quit = Append(@, sig), !.signalled = TRUE]
                 ELSE server
    /\ server' # server
    /\ ServeStep

\* s := <-quit
ReceiveSignal ==
    /\ BackgroundAt("<-quit")
    /\ Len(server.quit) > 0
    /\ server' = [server EXCEPT !.background = "shutting down server", !.quit = Tail(@)]
    /\ ServeStep

\* svr.logger.Info("shutting down server", ...)
LogShuttingDown ==
    /\ BackgroundAt("shutting down server")
    /\ server' = [server EXCEPT !.background = "Shutdown",
                                !.log = Append(@, "shutting down server")]
    /\ ServeStep

\* err := svr.httpServer.Shutdown(ctx) is called
CallShutdown ==
    /\ BackgroundAt("Shutdown")
    /\ server' = [server EXCEPT !.background = "in Shutdown", !.shuttingDown = TRUE]
    /\ ServeStep

\* Shutdown returns nil, or the error of its context after 30 seconds (the
\* mock: what the test prepared)
ShutdownReturns(err) ==
    /\ BackgroundAt("in Shutdown")
    /\ server' = [server EXCEPT !.background = "shutdownError <-", !.shutdownErr = err]
    /\ ServeStep

MainSteps ==
    \/ StartBackground
    \/ LogStarting
    \/ ReturnListenError
    \/ LogStoppedAndReturn
BackgroundSteps ==
    \/ Notify
    \/ ReceiveSignal
    \/ LogShuttingDown
    \/ CallShutdown

NextServe ==
    \/ \E kind \in HTTPServers : CallServe(kind)
    \/ StartBackground
    \/ LogStarting
    \/ ListenAndServeCloses
    \/ ListenAndServeFails
    \/ \E err \in ListenErrors : MockListenAndServe(err)
    \/ ReturnListenError
    \/ SendShutdownError
    \/ LogStoppedAndReturn
    \/ Notify
    \/ \E sig \in Signals : Signal(sig)
    \/ ReceiveSignal
    \/ LogShuttingDown
    \/ CallShutdown
    \/ \E err \in ShutdownErrors : ShutdownReturns(err)

SpecServe == Init /\ [][NextServe]_vars

\* SpecServeFair: a goroutine that can take its next statement takes it, a
\* call that was made returns, and ListenAndServe of http.Server returns once
\* Shutdown was called; nothing makes a signal arrive or ListenAndServe fail
SpecServeFair ==
    /\ SpecServe
    /\ WF_vars(MainSteps)
    /\ WF_vars(BackgroundSteps)
    /\ WF_vars(SendShutdownError)
    /\ WF_vars(ListenAndServeCloses)
    /\ WF_vars(\E err \in ListenErrors : MockListenAndServe(err))
    /\ WF_vars(\E err \in ShutdownErrors : ShutdownReturns(err))

\* message m is in the log of Serve
Logged(m) == \E i \in 1 .. Len(server.log) : server.log[i] = m

\* Serve logs "stopped server" and returns nil if and only if ListenAndServe
\* returned http.ErrServerClosed and Shutdown returned nil; a Shutdown error
\* is returned and "stopped server" is not logged; another error of
\* ListenAndServe is returned without waiting on shutdownError
ServeOutcome ==
    server.called =>
        /\ Logged("stopped server") =>
              /\ server.listenErr = "http.ErrServerClosed"
              /\ server.shutdownErr = "nil"
        /\ server.main = "returned" =>
              /\ server.result = "nil" <=> Logged("stopped server")
              /\ server.result = "nil" <=>
                    (server.listenErr = "http.ErrServerClosed" /\ server.shutdownErr = "nil")
        /\ (server.listenErr = "http.ErrServerClosed" /\ server.shutdownErr = "shutdown error") =>
              /\ ~Logged("stopped server")
              /\ server.main = "returned" => server.result = "shutdown error"
        /\ server.listenErr = "listen error" =>
              /\ server.main \in {"errors.Is", "returned", "killed"}
              /\ server.main = "returned" => server.result = "listen error"

\* C26: Server.Serve logs "stopped server" and returns nil if and only if
\* ListenAndServe returned http.ErrServerClosed and the Shutdown triggered by
\* the signal returned nil, and in that run the log entries "starting
\* server", "shutting down server", "stopped server" occur in this order; a
\* Shutdown error is returned without "stopped server"; another error of
\* ListenAndServe is returned without waiting for a signal.
C26_Counterexample ==
    /\ ServeOutcome
    /\ (server.called /\ server.main = "returned" /\ server.result = "nil") =>
          server.log = <<"starting server", "shutting down server", "stopped server">>

\* C30: every goroutine started by Server.Serve eventually terminates once a
\* SIGINT/SIGTERM is delivered: the signal-handling goroutine does not stay
\* blocked forever sending on shutdownError, also when Serve has already
\* returned an error of ListenAndServe, and Serve does not block forever
\* after ListenAndServe returned http.ErrServerClosed following a signal.
C30_Counterexample ==
    /\ (server.called /\ server.signalled) ~> (server.background = "done")
    /\ (server.called /\ server.signalled /\ server.main = "<-shutdownError")
          ~> (server.main = "returned")

====
